---- MODULE Spec2Model ----
(***************************************************************************)
(* Model of the Bento Box tooling: bento_reboot.py (BentoRebooter:         *)
(* install-bento, link-jars, run-bento) and make_cassandra_bento.py        *)
(* (JarCopier: unpack-bento, copy-kiji-jars, update-lib-jars).             *)
(*                                                                         *)
(* File names and paths are sequences of one-character strings, so that    *)
(* the regular expressions, str.replace, str.find and os.path functions of *)
(* the scripts are computed character by character, as Python does.        *)
(* The file system is a partial function from paths to entries: a regular  *)
(* file with a content, or a symbolic link with a target path.             *)
(***************************************************************************)
EXTENDS Naturals, Sequences, FiniteSets, TLC

VARIABLES
  fs,          \* the file system: path -> [k: "file", c: content] or [k: "link", t: path]
  pc,          \* position of the process: "idle" (none runs), "module", "jar", "place",
               \* "dep" (inside an action), "done" (the action ended, see result)
  tool,        \* action of the run: "none", "link", "copy", "update"
  mods,        \* self._link_modules of the run
  modsLeft,    \* modules the for-loop of the action has not reached yet
  jarsLeft,    \* bento_jar_list entries the inner for-loop has not reached yet
  cur,         \* bento_jar of the current inner iteration
  local,       \* local_jar of the current module
  deps,        \* dependency_jars of the update-lib-jars run
  depsLeft,    \* dependency_jars the for-loop has not reached yet
  added_jars,  \* update-lib-jars: map from project names to JAR names
  result,      \* outcome of the run: "none", "running", "ok", "failed", "killed"
  copied,      \* history: the positions in deps of the entries the update-lib-jars
               \* run copied, in order
  runStartFs,  \* history: the file system when the run started
  rerun,       \* history: "none", or the outcome of the run before this one when this
               \* run repeats it with the same inputs
  bundled,     \* history: the sandbox files as the archive was extracted
  fname,       \* identity check: the file name under test
  ident,       \* identity check: outcome of _get_jar_project_name on fname
  ident2,      \* identity check: outcome of _get_jar_project_name on the name
               \* that the first call returned
  listing,     \* archive selection: os.listdir(self._root_dir), in the order returned
  wanted,      \* archive selection: bento_version_or_none
  chosen,      \* archive selection: outcome of _find_bento_tgz
  sought,      \* locator check: kiji_target
  located,     \* locator check: outcome of _get_locally_built_jar_for_target
  maven_output, \* classpath parsing: the lines Maven printed
  parsed,      \* classpath parsing: outcome of get_classpath_from_maven
  raw,         \* dependency gathering: for each module, the classpath parsed from
               \* the output of Maven in its build directory
  script,      \* life cycle: "none", "BentoRebooter" or "JarCopier"
  actions,     \* life cycle: self._actions
  step,        \* life cycle: the position of the script
  jps_results, \* life cycle: the lines of jps the loop has not reached yet
  sandbox,     \* life cycle: what is at self._bento_dir: "absent", "dir" or "file"
  sandbox0,    \* history: sandbox when the script started
  trail,       \* history: the kill, rmtree and tar steps taken, in order, each with
               \* what was at self._bento_dir when it was taken
  installed,   \* life cycle: "none", or how _do_action_install_bento ended
  started,     \* life cycle: exit status and output of the start command
  running,     \* life cycle: _do_action_run_bento returned
  outcome,     \* life cycle: "none", "ok", or the failure that ended the script
  ran,         \* history: the actions the script started, in order, each with what
               \* was at self._bento_dir when it started
  killed,      \* history: the pids for which "kill -9" was run, in order
  jps_out,     \* history: the lines that jps printed
  var_name,    \* classpath file: the name of the environment variable
  deps_to_write, \* classpath file: the entries handed to the writer
  classpath_file \* classpath file: the text of the file, once written

\* the variables of the sandbox and of the action that runs on it
runVars == <<fs, pc, tool, mods, modsLeft, jarsLeft, cur, local, deps, depsLeft,
             added_jars, result, copied, runStartFs, rerun, bundled>>

\* the variables of the identity check
identVars == <<fname, ident, ident2>>

\* the variables of the archive selection
selectVars == <<listing, wanted, chosen>>

\* the variables of the locator check (the tree it walks is fs)
locateVars == <<sought, located>>

\* the variables that the actions on the sandbox leave alone
\* the variables of the classpath parsing
parseVars == <<maven_output, parsed>>

\* the variables of the dependency gathering (with those of the run)
gatherVars == <<raw>>

\* the variables of the life cycle of the sandbox (with listing and wanted)
lifeHist == <<ran, killed, jps_out>>
lifeVars == <<script, actions, step, jps_results, sandbox, sandbox0, trail, installed,
              started, running, outcome, lifeHist>>

\* the variables of the classpath file
writeVars == <<var_name, deps_to_write, classpath_file>>

otherVars == <<identVars, selectVars, locateVars, parseVars, gatherVars, writeVars, lifeVars>>

\* the variables that the identity check, the archive selection and the
\* locator check leave alone
exceptIdent == <<runVars, selectVars, locateVars, parseVars, gatherVars, writeVars, lifeVars>>
exceptSelect == <<runVars, identVars, locateVars, parseVars, gatherVars, writeVars, lifeVars>>
exceptLocate == <<runVars, identVars, selectVars, parseVars, gatherVars, writeVars, lifeVars>>
exceptParse == <<runVars, identVars, selectVars, locateVars, gatherVars, writeVars, lifeVars>>

vars == <<runVars, otherVars>>

-----------------------------------------------------------------------------
(* Characters and strings *)

Digits == {"0", "1", "2", "3", "4", "5", "6", "7", "8", "9"}

Letters ==
  {"a", "b", "c", "d", "e", "f", "g", "h", "i", "j", "k", "l", "m",
   "n", "o", "p", "q", "r", "s", "t", "u", "v", "w", "x", "y", "z",
   "A", "B", "C", "D", "E", "F", "G", "H", "I", "J", "K", "L", "M",
   "N", "O", "P", "Q", "R", "S", "T", "U", "V", "W", "X", "Y", "Z"}

\* the class \w of Python's re module (ASCII)
WordChars == Letters \cup Digits \cup {"_"}

\* s[i..j] of length n starting at i
Slice(s, i, n) == SubSeq(s, i, i + n - 1)

\* str.startswith
StartsWith(s, pre) == Len(pre) <= Len(s) /\ Slice(s, 1, Len(pre)) = pre

\* str.endswith
EndsWith(s, suf) ==
  Len(suf) <= Len(s) /\ Slice(s, Len(s) - Len(suf) + 1, Len(suf)) = suf

\* sub occurs in s at position i
OccursAt(s, sub, i) == i + Len(sub) - 1 <= Len(s) /\ Slice(s, i, Len(sub)) = sub

\* str.find(sub) != -1
Find(s, sub) == \E i \in 1..(Len(s) + 1) : OccursAt(s, sub, i)

\* str.replace(old, new): every non-overlapping occurrence, left to right
RECURSIVE ReplaceFrom(_, _, _, _)
ReplaceFrom(s, old, new, i) ==
  IF i > Len(s) THEN <<>>
  ELSE IF OccursAt(s, old, i) THEN new \o ReplaceFrom(s, old, new, i + Len(old))
  ELSE <<s[i]>> \o ReplaceFrom(s, old, new, i + 1)

Replace(s, old, new) == ReplaceFrom(s, old, new, 1)

\* position of the last "/" of a path, 0 when there is none
LastSlash(p) ==
  LET S == {i \in 1..Len(p) : p[i] = "/"}
  IN IF S = {} THEN 0 ELSE CHOOSE i \in S : \A j \in S : j <= i

\* os.path.basename
Basename(p) == SubSeq(p, LastSlash(p) + 1, Len(p))

\* os.path.dirname (of the absolute paths used here)
Dirname(p) == SubSeq(p, 1, LastSlash(p) - 1)

\* os.path.join(dir, name)
Join(d, n) == d \o <<"/">> \o n

-----------------------------------------------------------------------------
(* Regular expressions. A matcher takes the string and the set P of       *)
(* positions the match may have reached, and returns the set of positions *)
(* it may reach next; a pattern matches when the final set is not empty.  *)

\* a literal
Lit(s, P, lit) == {p + Len(lit) : p \in {q \in P : OccursAt(s, lit, q)}}

\* one character of class C
Cls(s, P, C) == {p + 1 : p \in {q \in P : q <= Len(s) /\ s[q] \in C}}

\* the unescaped "." of a pattern: any character
AnyChar(s, P) == {p + 1 : p \in {q \in P : q <= Len(s)}}

\* C+ : one or more characters of class C
ClsPlus(s, P, C) ==
  {q \in 2..(Len(s) + 1) : \E p \in P : p < q /\ \A i \in p..(q - 1) : s[i] \in C}

\* (\.\d+)+
RECURSIVE DotNumPlus(_, _)
DotNumPlus(s, P) ==
  LET Q == ClsPlus(s, Lit(s, P, <<".">>), Digits)
  IN IF Q = {} THEN {} ELSE Q \cup DotNumPlus(s, Q)

\* \d+\.\d+\.\d+
XYZ(s, P) ==
  ClsPlus(s, Lit(s, ClsPlus(s, Lit(s, ClsPlus(s, P, Digits), <<".">>), Digits), <<".">>), Digits)

-----------------------------------------------------------------------------
(* String constants of the scripts *)

DOT_JAR == <<".", "j", "a", "r">>
DOT_BAK == <<".", "b", "a", "k">>
JAR == <<"j", "a", "r">>
KIJI == <<"k", "i", "j", "i">>
HADOOP == <<"h", "a", "d", "o", "o", "p">>
HBASE == <<"h", "b", "a", "s", "e">>
KIJI_DASH == <<"k", "i", "j", "i", "-">>
TARGET == <<"t", "a", "r", "g", "e", "t">>
LIB == <<"l", "i", "b">>
DASH_SNAPSHOT == <<"-", "S", "N", "A", "P", "S", "H", "O", "T">>

-----------------------------------------------------------------------------
(* IdentityNormalizer: JarCopier._get_jar_project_name *)

\* (-tests|\.Final|-\d+|\w|-GA|\.GA|\.CR2|-M\d+)
Qualifier(s, P) ==
  Lit(s, P, <<"-", "t", "e", "s", "t", "s">>)
    \cup Lit(s, P, <<".", "F", "i", "n", "a", "l">>)
    \cup ClsPlus(s, Lit(s, P, <<"-">>), Digits)
    \cup Cls(s, P, WordChars)
    \cup Lit(s, P, <<"-", "G", "A">>)
    \cup Lit(s, P, <<".", "G", "A">>)
    \cup Lit(s, P, <<".", "C", "R", "2">>)
    \cup ClsPlus(s, Lit(s, P, <<"-", "M">>), Digits)

\* p_jar of _get_jar_project_name, tried at position i: the positions where a match ends
\* -\d+(\.\d+)+(-tests|\.Final|-\d+|\w|-GA|\.GA|\.CR2|-M\d+)?\.jar
p_jar_project(s, i) ==
  LET D == Lit(s, {i}, <<"-">>)
      V == DotNumPlus(s, ClsPlus(s, D, Digits))
  IN IF D = {} THEN {} ELSE Lit(s, V \cup Qualifier(s, V), DOT_JAR)

\* p_jar.sub('', jar_name): every leftmost non-overlapping match is removed. The
\* pattern ends with the literal ".jar" and nothing before it can hold ".jar", so
\* a match that starts at i has one possible end.
RECURSIVE SubFrom(_, _)
SubFrom(s, i) ==
  IF i > Len(s) THEN <<>>
  ELSE LET E == p_jar_project(s, i)
       IN IF E # {} THEN SubFrom(s, CHOOSE e \in E : \A d \in E : e <= d)
          ELSE <<s[i]>> \o SubFrom(s, i + 1)

\* the name without the version or ".jar"; ok is FALSE when the assertion
\* "not root_name.endswith('jar')" fails
_get_jar_project_name(jar_full_path) ==
  LET jar_name == Basename(jar_full_path)
      root_name == SubFrom(jar_name, 1)
  IN [ok |-> ~EndsWith(root_name, JAR), name |-> root_name]

_get_jar_file_name(jar_full_path) == Basename(jar_full_path)

-----------------------------------------------------------------------------
(* The file system *)

File(c) == [k |-> "file", c |-> c]
Link(t) == [k |-> "link", t |-> t]

\* os.path.islink
IsLink(f, p) == p \in DOMAIN f /\ f[p].k = "link"

\* the path a chain of links ends at (n bounds the chain: a longer one is a loop)
RECURSIVE Resolve(_, _, _)
Resolve(f, p, n) ==
  IF n > 0 /\ IsLink(f, p) THEN Resolve(f, f[p].t, n - 1) ELSE p

\* os.path.isfile: follows links
IsFile(f, p) ==
  LET q == Resolve(f, p, Cardinality(DOMAIN f))
  IN q \in DOMAIN f /\ f[q].k = "file"

\* os.path.isdir, a directory being a proper prefix of some path
IsDir(f, d) == \E p \in DOMAIN f : StartsWith(p, d \o <<"/">>)

\* os.remove(p), p existing
OsRemove(f, p) == [q \in DOMAIN f \ {p} |-> f[q]]

\* os.rename(src, dst), src existing: dst is replaced when it exists
OsRename(f, src, dst) ==
  [q \in (DOMAIN f \ {src}) \cup {dst} |-> IF q = dst THEN f[src] ELSE f[q]]

\* os.symlink(target, p), p not existing
OsSymlink(f, target, p) ==
  [q \in DOMAIN f \cup {p} |-> IF q = p THEN Link(target) ELSE f[q]]

\* shutil.copyfile(src, dst), src a file: dst is opened for writing, which
\* follows a link at dst and writes the file the link points to
CopyFile(f, src, dst) ==
  LET n == Cardinality(DOMAIN f)
      to == Resolve(f, dst, n)
  IN [q \in DOMAIN f \cup {to} |-> IF q = to THEN File(f[Resolve(f, src, n)].c) ELSE f[q]]

\* the files os.walk(top) lists, with their directory joined (links to files
\* are listed as files; every link of the model points to a file)
Walk(f, top) == {p \in DOMAIN f : StartsWith(p, top \o <<"/">>)}

-----------------------------------------------------------------------------
(* The working directory: the sandbox, the module checkouts, the local     *)
(* Maven repository                                                        *)

\* self._root_dir
root_dir == <<"/", "w">>

\* self._bento_dir: root_dir joined with 'kiji-bento-' + name
bento_dir == Join(root_dir, <<"k", "i", "j", "i", "-", "b", "e", "n", "t", "o", "-", "x">>)

\* the modules a caller may name with --link-modules
ModS == <<"s">>
ModT == <<"t">>
Modules == {ModS, ModT}

V100 == <<"1", ".", "0", ".", "0">>
V110 == <<"1", ".", "1", ".", "0">>
V200 == <<"2", ".", "0", ".", "0">>

\* <name>-<version>.jar
JarName(name, ver) == name \o <<"-">> \o ver \o DOT_JAR

\* <name>-<version>-SNAPSHOT.jar
SnapshotName(name, ver) == name \o <<"-">> \o ver \o DASH_SNAPSHOT \o DOT_JAR

BentoLib == Join(bento_dir, LIB)
BentoCluster == Join(bento_dir, <<"c">>)
WIDGETS == <<"w", "i", "d", "g", "e", "t", "s">>

\* jars every release archive bundles: a module whose name starts with kiji-s,
\* and a dependency that is no Kiji module
CommonJars ==
  {<<Join(BentoLib, JarName(KIJI_DASH \o ModS \o <<"-", "q">>, V100)), File("s-q-1.0.0")>>,
   <<Join(BentoLib, JarName(WIDGETS, V200)), File("widgets-2.0.0")>>}

\* the release archives: one bundles module s twice (in lib and in another
\* directory of the sandbox), the other bundles modules s and t in lib
Archives ==
  {CommonJars \cup
     {<<Join(BentoLib, JarName(KIJI_DASH \o ModS, V100)), File("s-1.0.0")>>,
      <<Join(BentoCluster, JarName(KIJI_DASH \o ModS, V100)), File("s-1.0.0-c")>>},
   CommonJars \cup
     {<<Join(BentoLib, JarName(KIJI_DASH \o ModS, V100)), File("s-1.0.0")>>,
      <<Join(BentoLib, JarName(KIJI_DASH \o ModT, V100)), File("t-1.0.0")>>}}

\* <root_dir>/<module>/target/kiji-<module>-1.1.0-SNAPSHOT.jar
LocalJarPath(m) ==
  Join(Join(Join(root_dir, m), TARGET), SnapshotName(KIJI_DASH \o m, V110))

LocalBuilds ==
  {<<LocalJarPath(ModS), File("s-1.1.0-SNAPSHOT")>>,
   <<LocalJarPath(ModT), File("t-1.1.0-SNAPSHOT")>>}

\* the file system holding the files of a set of <<path, entry>> pairs
FsOf(S) == [p \in {x[1] : x \in S} |-> (CHOOSE x \in S : x[1] = p)[2]]

\* the local Maven repository, and the same repository under a home directory
\* whose name holds 'kiji'
M2 == <<"/", "m">>
KijiHome == <<"/", "k", "i", "j", "i">>

G == <<"g">>
V10 == <<"1", ".", "0">>
V20 == <<"2", ".", "0">>
V210 == <<"2", ".", "1", ".", "0">>

DepG10 == Join(M2, JarName(G, V10))
DepG20 == Join(M2, JarName(G, V20))
DepG10Kiji == Join(KijiHome, JarName(G, V10))
DepKijiS == Join(M2, JarName(KIJI_DASH \o ModS, V110))
DepWidgetsSnapshot == Join(M2, SnapshotName(WIDGETS, V210))

\* a jar of the repository that no release archive bundles
H == <<"h">>
DepH10 == Join(M2, JarName(H, V10))

\* the classpath entries Maven may print
DepEntries == {DepG10, DepG20, DepG10Kiji, DepKijiS, DepWidgetsSnapshot}

RepoJars ==
  {<<DepG10, File("m:g-1.0")>>,
   <<DepG20, File("m:g-2.0")>>,
   <<DepG10Kiji, File("kiji:g-1.0")>>,
   <<DepKijiS, File("m:kiji-s-1.1.0")>>,
   <<DepWidgetsSnapshot, File("m:widgets-2.1.0-SNAPSHOT")>>,
   <<DepH10, File("m:h-1.0")>>}

\* the file system after an archive was extracted and the modules built
FreshFs(archive) == FsOf(archive \cup LocalBuilds \cup RepoJars)

-----------------------------------------------------------------------------
(* ArtifactLocator and the sandbox jars of a module *)

\* p_jar.match(fname) of _get_locally_built_jar_for_target:
\* kiji_target + r'-(?P<version>\d+\.\d+\.\d+)-SNAPSHOT.jar', from the start of fname
p_jar_local(kiji_target, s) ==
  Lit(s, AnyChar(s, Lit(s, XYZ(s, Lit(s, Lit(s, {1}, kiji_target), <<"-">>)), DASH_SNAPSHOT)), JAR) # {}

\* the set matching_jars, and whether both assertions on it hold
_get_locally_built_jar_for_target(f, kiji_target) ==
  LET matching_jars ==
        {p \in Walk(f, root_dir) :
           /\ Basename(Dirname(p)) = TARGET
           /\ p_jar_local(kiji_target, Basename(p))}
  IN [ok |-> Cardinality(matching_jars) = 1,
      jar |-> IF matching_jars = {} THEN <<>> ELSE CHOOSE p \in matching_jars : TRUE,
      matching_jars |-> matching_jars]

\* p_jar.match(fname) of _get_bento_jars_for_target:
\* kiji_target + r'-\d+\.\d+\.\d+.jar', from the start of fname
p_jar_bento(kiji_target, s) ==
  Lit(s, AnyChar(s, XYZ(s, Lit(s, Lit(s, {1}, kiji_target), <<"-">>))), JAR) # {}

\* the set all_jars without the test of p_jar: the names that start with the
\* target and end in .jar
_get_bento_jars_by_prefix(f, kiji_target) ==
  {p \in Walk(f, bento_dir) :
     /\ StartsWith(Basename(p), kiji_target)
     /\ EndsWith(Basename(p), DOT_JAR)}

\* the set all_jars
_get_bento_jars_for_target(f, kiji_target) ==
  {p \in Walk(f, bento_dir) :
     /\ StartsWith(Basename(p), kiji_target)
     /\ EndsWith(Basename(p), DOT_JAR)
     /\ p_jar_bento(kiji_target, Basename(p))}

-----------------------------------------------------------------------------
(* The swap of one sandbox jar. Each operator returns the file system it   *)
(* leaves and whether it returned normally (ok) or raised.                 *)

\* backup_jar = bento_jar.replace('.jar', '.bak')
BackupOf(bento_jar) == Replace(bento_jar, DOT_JAR, DOT_BAK)

\* _backup_bento_jar with the test of os.path.islink inverted
_backup_bento_jar_inverted(f, bento_jar) ==
  LET backup_jar == BackupOf(bento_jar)
  IN IF ~IsLink(f, bento_jar)
     THEN IF IsFile(f, backup_jar) /\ bento_jar \in DOMAIN f
          THEN [ok |-> TRUE, fs |-> OsRemove(f, bento_jar)]
          ELSE [ok |-> FALSE, fs |-> f]
     ELSE LET g == OsRename(f, bento_jar, backup_jar)
          IN [ok |-> IsFile(g, backup_jar), fs |-> g]

\* a _backup_bento_jar that removes the link before it looks for the backup
_backup_bento_jar_remove_first(f, bento_jar) ==
  LET backup_jar == BackupOf(bento_jar)
  IN IF IsLink(f, bento_jar)
     THEN [ok |-> IsFile(f, backup_jar), fs |-> OsRemove(f, bento_jar)]
     ELSE IF bento_jar \in DOMAIN f
          THEN LET g == OsRename(f, bento_jar, backup_jar)
               IN [ok |-> IsFile(g, backup_jar), fs |-> g]
          ELSE [ok |-> FALSE, fs |-> f]

\* BentoRebooter._backup_bento_jar
_backup_bento_jar(f, bento_jar) ==
  LET backup_jar == BackupOf(bento_jar)
  IN IF IsLink(f, bento_jar)
     THEN IF IsFile(f, backup_jar)
          THEN [ok |-> TRUE, fs |-> OsRemove(f, bento_jar)]
          ELSE [ok |-> FALSE, fs |-> f]
     ELSE IF bento_jar \in DOMAIN f
          THEN LET g == OsRename(f, bento_jar, backup_jar)
               IN [ok |-> IsFile(g, backup_jar), fs |-> g]
          ELSE [ok |-> FALSE, fs |-> f]

\* BentoRebooter._symlink_local_jar_to_bento
_symlink_local_jar_to_bento(f, local_jar, bento_jar) ==
  IF IsFile(f, bento_jar) \/ bento_jar \in DOMAIN f
  THEN [ok |-> FALSE, fs |-> f]
  ELSE [ok |-> TRUE, fs |-> OsSymlink(f, local_jar, bento_jar)]

\* JarCopier._backup_bento_jar: the same text as BentoRebooter's
JarCopier_backup_bento_jar(f, bento_jar) ==
  LET backup_jar == BackupOf(bento_jar)
  IN IF IsLink(f, bento_jar)
     THEN IF IsFile(f, backup_jar)
          THEN [ok |-> TRUE, fs |-> OsRemove(f, bento_jar)]
          ELSE [ok |-> FALSE, fs |-> f]
     ELSE IF bento_jar \in DOMAIN f
          THEN LET g == OsRename(f, bento_jar, backup_jar)
               IN [ok |-> IsFile(g, backup_jar), fs |-> g]
          ELSE [ok |-> FALSE, fs |-> f]

\* JarCopier._symlink_local_jar_to_bento: copies instead of linking
JarCopier_symlink_local_jar_to_bento(f, local_jar, bento_jar) ==
  IF IsFile(f, bento_jar) \/ ~IsFile(f, local_jar)
  THEN [ok |-> FALSE, fs |-> f]
  ELSE [ok |-> TRUE, fs |-> CopyFile(f, local_jar, bento_jar)]

-----------------------------------------------------------------------------
(* The choice of the release archive *)

\* the characters of the file names, in the order of their code points
CharOrder ==
  <<"-", ".", "/", "0", "1", "2", "3", "4", "5", "6", "7", "8", "9",
    "A", "B", "C", "D", "E", "F", "G", "H", "I", "J", "K", "L", "M",
    "N", "O", "P", "Q", "R", "S", "T", "U", "V", "W", "X", "Y", "Z", "_",
    "a", "b", "c", "d", "e", "f", "g", "h", "i", "j", "k", "l", "m",
    "n", "o", "p", "q", "r", "s", "t", "u", "v", "w", "x", "y", "z">>

Ord(c) == CHOOSE i \in DOMAIN CharOrder : CharOrder[i] = c

\* a < b for Python strings
RECURSIVE StrLess(_, _)
StrLess(a, b) ==
  IF b = <<>> THEN FALSE
  ELSE IF a = <<>> THEN TRUE
  ELSE IF Head(a) = Head(b) THEN StrLess(Tail(a), Tail(b))
  ELSE Ord(Head(a)) < Ord(Head(b))

\* the list as it is
Unsorted(l) == l

\* x put into the sorted list l
RECURSIVE Insert(_, _)
Insert(x, l) ==
  IF l = <<>> THEN <<x>>
  ELSE IF StrLess(x, Head(l)) THEN <<x>> \o l
  ELSE <<Head(l)>> \o Insert(x, Tail(l))

\* sorted(l) of a list of strings
RECURSIVE Sorted(_)
Sorted(l) == IF l = <<>> THEN <<>> ELSE Insert(Head(l), Sorted(Tail(l)))

KIJI_BENTO == <<"k", "i", "j", "i", "-", "b", "e", "n", "t", "o">>
DOT_TAR_GZ == <<".", "t", "a", "r", ".", "g", "z">>
DASH_RELEASE_TGZ == <<"-", "r", "e", "l", "e", "a", "s", "e">> \o DOT_TAR_GZ

\* \d\.\d\.\d
DDD(s, P) == Cls(s, Lit(s, Cls(s, Lit(s, Cls(s, P, Digits), <<".">>), Digits), <<".">>), Digits)

\* p_bento.match(s):
\* kiji-bento-(?P<name>\w+)-(?P<version>\d\.\d\.\d)-release\.tar\.gz, from the
\* start of s. \w does not match "-", so the name ends at one place only.
p_bento(s) ==
  LET N == Lit(s, ClsPlus(s, Lit(s, {1}, KIJI_BENTO \o <<"-">>), WordChars), <<"-">>)
      V == {p \in N : Lit(s, DDD(s, {p}), DASH_RELEASE_TGZ) # {}}
      v == CHOOSE p \in V : TRUE
  IN [matched |-> V # {},
      name |-> IF V = {} THEN <<>> ELSE Slice(s, Len(KIJI_BENTO) + 2, v - Len(KIJI_BENTO) - 3),
      version |-> IF V = {} THEN <<>> ELSE Slice(s, v, 5)]

\* the value None of bento_version_or_none
None == <<>>

Returned(tgz) == [ok |-> TRUE, tgz |-> tgz, err |-> "none"]
Raised(err) == [ok |-> FALSE, tgz |-> <<>>, err |-> err]

\* the for-loop of _find_bento_tgz over the candidates, in their order
RECURSIVE FindVersion(_, _)
FindVersion(all_bento_tgz, version) ==
  IF all_bento_tgz = <<>> THEN Raised("VersionNotFound")
  ELSE LET bento == Head(all_bento_tgz)
           m_bento == p_bento(bento)
       IN IF ~m_bento.matched THEN Raised("NoRegexMatch")
          ELSE IF m_bento.version = version THEN Returned(bento)
          ELSE FindVersion(Tail(all_bento_tgz), version)

\* _find_bento_tgz on the directory listing dir
_find_bento_tgz(dir, bento_version_or_none) ==
  LET all_bento_tgz ==
        SelectSeq(dir, LAMBDA f : EndsWith(f, DOT_TAR_GZ) /\ StartsWith(f, KIJI_BENTO))
  IN IF Len(all_bento_tgz) = 0 THEN Raised("NoArchiveFound")
     ELSE IF bento_version_or_none = None
     THEN Returned(Sorted(all_bento_tgz)[Len(all_bento_tgz)])
     ELSE FindVersion(all_bento_tgz, bento_version_or_none)

-----------------------------------------------------------------------------
(* The classpath Maven prints *)

COLON == <<":">>
INFO == <<"[", "I", "N", "F", "O", "]">>

\* the line that announces the classpath
DEPENDENCIES_CLASSPATH ==
  <<"[", "I", "N", "F", "O", "]", " ", "D", "e", "p", "e", "n", "d", "e", "n", "c", "i",
    "e", "s", " ", "c", "l", "a", "s", "s", "p", "a", "t", "h", ":">>

\* line.split(':')
RECURSIVE Split(_)
Split(line) ==
  IF ~Find(line, COLON) THEN <<line>>
  ELSE LET i == CHOOSE k \in 1..Len(line) :
                  line[k] = ":" /\ \A h \in 1..(k - 1) : line[h] # ":"
       IN <<SubSeq(line, 1, i - 1)>> \o Split(SubSeq(line, i + 1, Len(line)))

\* dependencies = None, and dependencies = a list
NoDependencies == [some |-> FALSE, list |-> <<>>]
Dependencies(list) == [some |-> TRUE, list |-> list]

Parsed(list) == [ok |-> TRUE, dependencies |-> list, err |-> "none"]
ClasspathFormatError == [ok |-> FALSE, dependencies |-> <<>>, err |-> "ClasspathFormatError"]

\* the for-loop of get_classpath_from_maven from line i on, and the assertion
\* after it
RECURSIVE ParseLines(_, _, _, _)
ParseLines(lines, i, dependencies, b_expect_on_next_line) ==
  IF i > Len(lines)
  THEN IF dependencies.some THEN Parsed(dependencies.list) ELSE ClasspathFormatError
  ELSE IF lines[i] = DEPENDENCIES_CLASSPATH
  THEN IF dependencies.some THEN ClasspathFormatError
       ELSE ParseLines(lines, i + 1, dependencies, TRUE)
  ELSE IF b_expect_on_next_line
  THEN IF dependencies.some \/ StartsWith(lines[i], INFO) THEN ClasspathFormatError
       ELSE ParseLines(lines, i + 1, Dependencies(Split(lines[i])), FALSE)
  ELSE ParseLines(lines, i + 1, dependencies, b_expect_on_next_line)

\* get_classpath_from_maven on the lines of maven_output
get_classpath_from_maven(lines) == ParseLines(lines, 1, NoDependencies, FALSE)

\* remove_kiji_dependencies: the entries in which 'kiji' does not occur
remove_kiji_dependencies(dependencies) ==
  SelectSeq(dependencies, LAMBDA dep : ~Find(dep, KIJI))

\* bentocp.dependencies after bentocp.go: the classpath of a module without
\* the entries of the Kiji modules
BentoClasspath_dependencies(classpath) == remove_kiji_dependencies(classpath)

\* dependency_jars.update(more), as for a set: the entries of more that
\* dependency_jars does not hold yet are added
UpdateDependencyJars(dependency_jars, more) ==
  dependency_jars \o
    SelectSeq(more, LAMBDA dep : \A i \in DOMAIN dependency_jars : dependency_jars[i] # dep)

\* dependency_jars.extend(more) of get_dependency_jars
ExtendDependencyJars(dependency_jars, more) == dependency_jars \o more

-----------------------------------------------------------------------------
(* update-lib-jars: the decision per classpath entry *)

\* a dict with the key k set to v
Extend(d, k, v) == [x \in DOMAIN d \cup {k} |-> IF x = k THEN v ELSE d[x]]

\* JarCopier._is_jar_to_definitely_skip
_is_jar_to_definitely_skip(jar_full_path) ==
  \/ Find(jar_full_path, KIJI)
  \/ Find(jar_full_path, HADOOP)
  \/ Find(jar_full_path, HBASE)

\* os.listdir(d): the names of the files directly in d
ListDir(f, d) == {Basename(p) : p \in {q \in DOMAIN f : Dirname(q) = d}}

\* JarCopier._get_bento_box_original_jars: the map from project names to the
\* jars of the sandbox lib directory; ok is FALSE when an assertion fails
_get_bento_box_original_jars(f) ==
  LET bento_lib == Join(bento_dir, LIB)
      all_jars == {n \in ListDir(f, bento_lib) :
                     EndsWith(n, DOT_JAR) /\ ~_is_jar_to_definitely_skip(n)}
      names == {_get_jar_project_name(jar).name : jar \in all_jars}
  IN [ok |-> IsDir(f, bento_lib) /\ \A jar \in all_jars : _get_jar_project_name(jar).ok,
      jars |-> [n \in names |->
                  CHOOSE jar \in all_jars : _get_jar_project_name(jar).name = n]]

\* a _should_copy_jar_to_bento_lib that does not look at added_jars
_should_copy_whatever_was_added(jar_full_path, added, original_jars) ==
  IF _is_jar_to_definitely_skip(jar_full_path)
  THEN [ok |-> TRUE, copy |-> FALSE]
  ELSE [ok |-> _get_jar_project_name(jar_full_path).ok, copy |-> TRUE]

\* JarCopier._should_copy_jar_to_bento_lib: copy is its return value; ok is
\* FALSE when the assertion of _get_jar_project_name fails
_should_copy_jar_to_bento_lib(jar_full_path, added, original_jars) ==
  IF _is_jar_to_definitely_skip(jar_full_path)
  THEN [ok |-> TRUE, copy |-> FALSE]
  ELSE LET project == _get_jar_project_name(jar_full_path)
       IN IF ~project.ok THEN [ok |-> FALSE, copy |-> FALSE]
          ELSE IF project.name \in DOMAIN added THEN [ok |-> TRUE, copy |-> FALSE]
          ELSE IF project.name \in DOMAIN original_jars THEN [ok |-> TRUE, copy |-> TRUE]
          ELSE [ok |-> TRUE, copy |-> TRUE]

\* JarCopier._copy_jar_to_bento_lib
_copy_jar_to_bento_lib(f, jar_full_path) ==
  IF IsFile(f, jar_full_path)
  THEN [ok |-> TRUE,
        fs |-> CopyFile(f, jar_full_path,
                        Join(Join(bento_dir, LIB), _get_jar_file_name(jar_full_path)))]
  ELSE [ok |-> FALSE, fs |-> f]

\* JarCopier._update_added_jars
_update_added_jars(jar_full_path, added) ==
  LET project == _get_jar_project_name(jar_full_path)
  IN [ok |-> project.ok /\ project.name \notin DOMAIN added,
      added |-> Extend(added, project.name, _get_jar_file_name(jar_full_path))]

-----------------------------------------------------------------------------
(* The actions, one file operation per step. A process runs one action     *)
(* (go parses the options and calls _run_actions), ends in "done" and      *)
(* exits; the next process starts from "idle".                             *)

\* longest --link-modules list
MaxMods == 2

\* longest classpath Maven prints
MaxDeps == 2

\* the lists --link-modules may give
ModLists == UNION {[1..n -> Modules] : n \in 0..MaxMods}

\* the lists get_dependency_jars may return
DepLists == UNION {[1..n -> DepEntries] : n \in 0..MaxDeps}

NoFile == <<>>

\* no call of _get_jar_project_name was made
NoIdent == [done |-> FALSE]

IdentityIdle == fname = <<>> /\ ident = NoIdent /\ ident2 = NoIdent

\* no call of _find_bento_tgz was made
NoChoice == [done |-> FALSE]

SelectIdle == listing = <<>> /\ wanted = None /\ chosen = NoChoice

\* no locator check was made
NoLocated == [done |-> FALSE]
LocateIdle == sought = <<>> /\ located = NoLocated

\* no classpath was parsed
NoParse == [done |-> FALSE]
ParseIdle == maven_output = <<>> /\ parsed = NoParse

\* no classpath was handed to a run
GatherIdle == raw = <<>>

\* no classpath file was written
NotWritten == [written |-> FALSE]
WriteIdle == var_name = <<>> /\ deps_to_write = <<>> /\ classpath_file = NotWritten

\* no script of the life cycle runs
NotStarted == [done |-> FALSE]
LifeIdle ==
  /\ script = "none" /\ actions = <<>> /\ step = "idle" /\ jps_results = <<>>
  /\ ran = <<>> /\ killed = <<>> /\ jps_out = <<>>
  /\ sandbox = "dir" /\ sandbox0 = "dir" /\ trail = <<>> /\ installed = "none"
  /\ started = NotStarted /\ running = FALSE /\ outcome = "none"

\* the pure functions and the life cycle are at rest
OtherIdle ==
  IdentityIdle /\ SelectIdle /\ LocateIdle /\ ParseIdle /\ GatherIdle /\ WriteIdle /\ LifeIdle

\* no process runs
Idle ==
  /\ pc = "idle"
  /\ tool = "none"
  /\ mods = <<>>
  /\ modsLeft = <<>>
  /\ jarsLeft = {}
  /\ cur = NoFile
  /\ local = NoFile
  /\ deps = <<>>
  /\ depsLeft = <<>>
  /\ added_jars = <<>>
  /\ copied = <<>>
  /\ result = "none"
  /\ rerun = "none"

\* the state before any action ran: an archive was extracted, the modules built
Init ==
  /\ \E archive \in Archives :
       /\ fs = FreshFs(archive)
       /\ runStartFs = FreshFs(archive)
       /\ bundled = FsOf(archive)
  /\ Idle
  /\ OtherIdle

\* the action stops: it returned (ok), raised (failed) or was killed
EndRun(how) ==
  /\ pc' = "done"
  /\ result' = how
  /\ modsLeft' = <<>>
  /\ jarsLeft' = {}
  /\ local' = NoFile

\* a process starts the action t with the modules ms (and, for
\* update-lib-jars, the classpath ds); again says that the process before it
\* ran the same action with the same inputs
Begin(t, ms, ds, again) ==
  /\ tool' = t
  /\ mods' = ms
  /\ deps' = ds
  /\ runStartFs' = fs
  /\ rerun' = IF again THEN result ELSE "none"
  /\ cur' = NoFile
  /\ copied' = <<>>
  /\ added_jars' = <<>>
  /\ UNCHANGED <<fs, bundled, otherVars>>

\* _run_actions of both scripts asserts that the sandbox directory exists,
\* then calls _do_action_link_jars or _do_action_copy_kiji_jars
BeginSwap(t, ms, again) ==
  /\ Begin(t, ms, <<>>, again)
  /\ depsLeft' = <<>>
  /\ IF IsDir(fs, bento_dir)
     THEN /\ pc' = "module"
          /\ result' = "running"
          /\ modsLeft' = ms
          /\ UNCHANGED <<jarsLeft, local>>
     ELSE EndRun("failed")

StartSwap(t) == pc = "idle" /\ \E ms \in ModLists : BeginSwap(t, ms, FALSE)

\* the head of the for-loop over self._link_modules: the local jar and the
\* sandbox jars of the next module are looked up
SwapModule(t) ==
  /\ pc = "module"
  /\ tool = t
  /\ modsLeft # <<>>
  /\ LET kiji_target == KIJI_DASH \o Head(modsLeft)
         found == _get_locally_built_jar_for_target(fs, kiji_target)
     IN IF found.ok
        THEN /\ local' = found.jar
             /\ jarsLeft' = _get_bento_jars_for_target(fs, kiji_target)
             /\ modsLeft' = Tail(modsLeft)
             /\ pc' = IF jarsLeft' = {} THEN "module" ELSE "jar"
             /\ UNCHANGED result
        ELSE EndRun("failed")
  /\ UNCHANGED <<fs, tool, mods, cur, deps, depsLeft, added_jars, copied, runStartFs,
                 rerun, bundled, otherVars>>

\* the for-loop over self._link_modules is exhausted: the action returns
SwapDone(t) ==
  /\ pc = "module"
  /\ tool = t
  /\ modsLeft = <<>>
  /\ EndRun("ok")
  /\ UNCHANGED <<fs, tool, mods, cur, deps, depsLeft, added_jars, copied, runStartFs,
                 rerun, bundled, otherVars>>

\* self._backup_bento_jar(bento_jar) for the next jar of bento_jar_list, a set
\* that Python iterates in an order the script does not choose
SwapBackup(t) ==
  /\ pc = "jar"
  /\ tool = t
  /\ \E bento_jar \in jarsLeft :
       LET r == IF t = "link" THEN _backup_bento_jar(fs, bento_jar)
                ELSE JarCopier_backup_bento_jar(fs, bento_jar)
       IN /\ cur' = bento_jar
          /\ fs' = r.fs
          /\ IF r.ok
             THEN /\ pc' = "place"
                  /\ jarsLeft' = jarsLeft \ {bento_jar}
                  /\ UNCHANGED <<result, modsLeft, local>>
             ELSE EndRun("failed")
  /\ UNCHANGED <<tool, mods, deps, depsLeft, added_jars, copied, runStartFs, rerun,
                 bundled, otherVars>>

\* self._symlink_local_jar_to_bento(local_jar, bento_jar)
SwapPlace(t) ==
  /\ pc = "place"
  /\ tool = t
  /\ LET r == IF t = "link" THEN _symlink_local_jar_to_bento(fs, local, cur)
              ELSE JarCopier_symlink_local_jar_to_bento(fs, local, cur)
     IN /\ fs' = r.fs
        /\ IF r.ok
           THEN /\ pc' = IF jarsLeft = {} THEN "module" ELSE "jar"
                /\ UNCHANGED <<result, modsLeft, jarsLeft, local>>
           ELSE EndRun("failed")
  /\ UNCHANGED <<tool, mods, cur, deps, depsLeft, added_jars, copied, runStartFs, rerun,
                 bundled, otherVars>>

\* BentoRebooter: link-jars
LinkJarsStart == StartSwap("link")
LinkJarsModule == SwapModule("link")
LinkJarsBackup == SwapBackup("link")
LinkJarsPlace == SwapPlace("link")
LinkJarsDone == SwapDone("link")

\* JarCopier: copy-kiji-jars
CopyJarsStart == StartSwap("copy")
CopyJarsModule == SwapModule("copy")
CopyJarsBackup == SwapBackup("copy")
CopyJarsPlace == SwapPlace("copy")
CopyJarsDone == SwapDone("copy")

\* JarCopier._do_action_update_lib_jars up to its for-loop: the map of the
\* original jars is built, and get_dependency_jars locates the local jar of
\* each module and returns the classpath entries ds that Maven printed for them
BeginUpdate(ms, ds, again, original_jars) ==
  /\ Begin("update", ms, ds, again)
  /\ depsLeft' = ds
  /\ IF /\ IsDir(fs, bento_dir)
        /\ original_jars.ok
        /\ \A i \in DOMAIN ms :
             _get_locally_built_jar_for_target(fs, KIJI_DASH \o ms[i]).ok
     THEN /\ pc' = "dep"
          /\ result' = "running"
          /\ UNCHANGED <<modsLeft, jarsLeft, local>>
     ELSE EndRun("failed")

\* update-lib-jars for at most one module: the classpath of several modules
\* is one longer list
UpdateStart ==
  /\ pc = "idle"
  /\ LET original_jars == _get_bento_box_original_jars(fs)
     IN \E ms \in ModLists, ds \in DepLists :
          /\ Len(ms) <= 1
          /\ ms = <<>> => ds = <<>>
          /\ BeginUpdate(ms, ds, FALSE, original_jars)

\* one iteration of "for jar in dependency_jars"
UpdateDep ==
  /\ pc = "dep"
  /\ depsLeft # <<>>
  /\ LET jar == Head(depsLeft)
         at == Len(deps) - Len(depsLeft) + 1
         should == _should_copy_jar_to_bento_lib(
                     jar, added_jars, _get_bento_box_original_jars(runStartFs).jars)
         put == _copy_jar_to_bento_lib(fs, jar)
         upd == _update_added_jars(jar, added_jars)
     IN IF ~should.ok
        THEN EndRun("failed") /\ UNCHANGED <<fs, depsLeft, added_jars, copied>>
        ELSE IF ~should.copy
        THEN /\ depsLeft' = Tail(depsLeft)
             /\ UNCHANGED <<fs, pc, result, modsLeft, jarsLeft, local, added_jars, copied>>
        ELSE IF ~put.ok
        THEN EndRun("failed") /\ UNCHANGED <<fs, depsLeft, added_jars, copied>>
        ELSE IF ~upd.ok
        THEN /\ EndRun("failed")
             /\ fs' = put.fs
             /\ copied' = Append(copied, at)
             /\ UNCHANGED <<depsLeft, added_jars>>
        ELSE /\ fs' = put.fs
             /\ copied' = Append(copied, at)
             /\ added_jars' = upd.added
             /\ depsLeft' = Tail(depsLeft)
             /\ UNCHANGED <<pc, result, modsLeft, jarsLeft, local>>
  /\ UNCHANGED <<tool, mods, cur, deps, runStartFs, rerun, bundled, otherVars>>

\* the for-loop over dependency_jars is exhausted: the action returns
UpdateDone ==
  /\ pc = "dep"
  /\ depsLeft = <<>>
  /\ EndRun("ok")
  /\ UNCHANGED <<fs, tool, mods, cur, deps, depsLeft, added_jars, copied, runStartFs,
                 rerun, bundled, otherVars>>

\* the process is killed between two of its steps
Kill ==
  /\ pc \notin {"idle", "done"}
  /\ EndRun("killed")
  /\ UNCHANGED <<fs, tool, mods, cur, deps, depsLeft, added_jars, copied, runStartFs,
                 rerun, bundled, otherVars>>

\* the caller runs the same command line again
Rerun ==
  /\ pc = "done"
  /\ IF tool = "update"
     THEN BeginUpdate(mods, deps, TRUE, _get_bento_box_original_jars(fs))
     ELSE BeginSwap(tool, mods, TRUE)

\* the process has ended; what remains is the file system
Exit ==
  /\ pc = "done"
  /\ pc' = "idle"
  /\ tool' = "none"
  /\ mods' = <<>>
  /\ modsLeft' = <<>>
  /\ jarsLeft' = {}
  /\ cur' = NoFile
  /\ local' = NoFile
  /\ deps' = <<>>
  /\ depsLeft' = <<>>
  /\ added_jars' = <<>>
  /\ copied' = <<>>
  /\ result' = "none"
  /\ rerun' = "none"
  /\ runStartFs' = fs
  /\ UNCHANGED <<fs, bundled, otherVars>>

\* an _untar_bento that leaves the directory in place
keeps_tree(f, d) == f

\* shutil.rmtree(d): the files and links below d are removed; a link is
\* removed, not followed
shutil_rmtree(f, d) ==
  [p \in {q \in DOMAIN f : ~StartsWith(q, d \o <<"/">>)} |-> f[p]]

\* tar -zxvf: each member of the archive is written at its path, in the
\* place of what is there
tar_zxvf(f, members) ==
  [p \in DOMAIN f \cup DOMAIN members |-> IF p \in DOMAIN members THEN members[p] ELSE f[p]]

\* os.path.exists(d) for a directory path
PathExists(f, d) == IsDir(f, d) \/ d \in DOMAIN f

\* BentoRebooter._untar_bento: ok is FALSE when one of its two assertions fails
_untar_bento(f, members) ==
  LET g == IF IsDir(f, bento_dir) THEN shutil_rmtree(f, bento_dir) ELSE f
      h == tar_zxvf(g, members)
  IN IF PathExists(g, bento_dir) THEN [ok |-> FALSE, removed |-> g, fs |-> g]
     ELSE [ok |-> PathExists(h, bento_dir), removed |-> g, fs |-> h]

\* BentoRebooter._do_action_install_bento: the stale processes are killed,
\* the archive in the root directory (the one extracted before or a newer
\* one) is found and extracted; a command that exits with a status other
\* than zero ends the action (failed), and so does an assertion (refused)
InstallBento ==
  /\ pc = "idle"
  /\ \E archive \in Archives, killed_all \in BOOLEAN, tar_returned \in BOOLEAN :
       LET r == _untar_bento(fs, FsOf(archive))
       IN /\ bundled' = FsOf(archive)
          /\ IF ~killed_all THEN fs' = fs /\ result' = "failed"
             ELSE IF ~tar_returned THEN fs' \in {r.removed, r.fs} /\ result' = "failed"
             ELSE fs' = r.fs /\ result' = IF r.ok THEN "ok" ELSE "refused"
  /\ pc' = "done"
  /\ tool' = "install"
  /\ runStartFs' = fs
  /\ UNCHANGED <<mods, modsLeft, jarsLeft, cur, local, deps, depsLeft, added_jars, copied,
                 rerun, otherVars>>

NextSwap ==
  \/ LinkJarsStart
  \/ LinkJarsModule
  \/ LinkJarsBackup
  \/ LinkJarsPlace
  \/ LinkJarsDone
  \/ CopyJarsStart
  \/ CopyJarsModule
  \/ CopyJarsBackup
  \/ CopyJarsPlace
  \/ CopyJarsDone

NextUpdate ==
  \/ UpdateStart
  \/ UpdateDep
  \/ UpdateDone

Next == NextSwap \/ Kill \/ Rerun \/ Exit

\* the sandbox under link-jars and copy-kiji-jars runs
Spec == Init /\ [][Next]_vars

\* the sandbox under link-jars and copy-kiji-jars runs, complete or killed,
\* and installs over what they leave
SpecReinstall == Init /\ [][NextSwap \/ Kill \/ Exit \/ InstallBento]_vars

\* the state before any action ran, when somebody has put, by hand, a link to
\* the local build of a module in the place of a jar of the sandbox, and
\* kept no .bak file
InitHandLinked ==
  /\ \E archive \in Archives, m \in Modules :
       \E j \in _get_bento_jars_for_target(FsOf(archive), KIJI_DASH \o m) :
         /\ fs = [FreshFs(archive) EXCEPT ![j] = Link(LocalJarPath(m))]
         /\ runStartFs = fs
         /\ bundled = FsOf(archive)
  /\ Idle
  /\ OtherIdle

\* link-jars and copy-kiji-jars runs on a sandbox with such a link
SpecBackup == InitHandLinked /\ [][NextSwap \/ Exit]_vars

\* the sandbox under update-lib-jars runs
SpecUpdate == Init /\ [][NextUpdate \/ Kill \/ Rerun \/ Exit]_vars

\* the sandbox under runs of the three actions in any order; a killed run
\* makes no further step, so its file operations are those of a prefix of a
\* complete run
SpecFrame == Init /\ [][NextSwap \/ NextUpdate \/ Exit]_vars

-----------------------------------------------------------------------------
(* The file that sets the classpath *)

NEWLINE == <<"\n">>
EXPORT == <<"e", "x", "p", "o", "r", "t", " ">>
HASH == <<"#", " ">>

KIJI_CLASSPATH == <<"K", "I", "J", "I", "_", "C", "L", "A", "S", "S", "P", "A", "T", "H">>
EXTRA_CLASSPATH ==
  <<"E", "X", "T", "R", "A", "_", "C", "L", "A", "S", "S", "P", "A", "T", "H">>

\* a writer that puts a space between the entries
RECURSIVE JoinSpace(_)
JoinSpace(list) ==
  IF list = <<>> THEN <<>>
  ELSE IF Len(list) = 1 THEN list[1]
  ELSE list[1] \o <<" ">> \o JoinSpace(Tail(list))

\* ':'.join(dependencies)
RECURSIVE JoinColon(_)
JoinColon(list) ==
  IF list = <<>> THEN <<>>
  ELSE IF Len(list) = 1 THEN list[1]
  ELSE list[1] \o COLON \o JoinColon(Tail(list))

\* for dep in dependencies: myfile.write("# %s\n" % dep)
RECURSIVE CommentLines(_)
CommentLines(list) ==
  IF list = <<>> THEN <<>>
  ELSE HASH \o Head(list) \o NEWLINE \o CommentLines(Tail(list))

\* write_classpath_file, and _write_file_that_sets_classpath of both scripts,
\* which has the same text: the characters written to the file
write_classpath_file(name, list) ==
  EXPORT \o name \o <<"=">> \o JoinColon(list) \o NEWLINE \o CommentLines(list)

MaxEntries == 3

\* the variable names of the scripts
VarNames == {KIJI_CLASSPATH, EXTRA_CLASSPATH}

\* the entries handed to the writer: paths of jars, and the empty entry that
\* a classpath such as "a::b" holds
WriterEntries == {DepG10, DepG20, DepH10, <<>>}

InitWrite ==
  /\ var_name \in VarNames
  /\ deps_to_write \in UNION {[1..n -> WriterEntries] : n \in 0..MaxEntries}
  /\ classpath_file = NotWritten
  /\ fs = <<>> /\ runStartFs = <<>> /\ bundled = <<>> /\ Idle
  /\ IdentityIdle /\ SelectIdle /\ LocateIdle /\ ParseIdle /\ GatherIdle /\ LifeIdle

\* a call of write_classpath_file
WriteClasspathFile ==
  /\ ~classpath_file.written
  /\ classpath_file' =
       [written |-> TRUE, text |-> write_classpath_file(var_name, deps_to_write)]
  /\ UNCHANGED <<runVars, identVars, selectVars, locateVars, parseVars, gatherVars, lifeVars,
                 var_name, deps_to_write>>

\* the classpath file, for every variable name and every list of entries
SpecWrite == InitWrite /\ [][WriteClasspathFile]_vars

\* the lines of a text in which every line ends with a newline
RECURSIVE LinesOf(_)
LinesOf(text) ==
  IF text = <<>> THEN <<>>
  ELSE LET i == CHOOSE k \in 1..Len(text) :
                  text[k] = "\n" /\ \A h \in 1..(k - 1) : text[h] # "\n"
       IN <<SubSeq(text, 1, i - 1)>> \o LinesOf(SubSeq(text, i + 1, Len(text)))

\* the text ends with a newline, or is empty
Terminated(text) == text = <<>> \/ text[Len(text)] = "\n"

\* the value of the line "export <name>=<value>"
ExportValue(line) == SubSeq(line, Len(EXPORT \o var_name) + 2, Len(line))

\* the first line exports the variable, and the lines after it are the
\* comments "# <entry>", one for each entry, in the order of the list
WellFormedFile(lines) ==
  /\ Len(lines) = 1 + Len(deps_to_write)
  /\ StartsWith(lines[1], EXPORT \o var_name \o <<"=">>)
  /\ \A i \in DOMAIN deps_to_write : lines[i + 1] = HASH \o deps_to_write[i]

\* C25, as claimed: the file is the export line and one comment line for each
\* entry, and the value of the export line, split at the colons, is the
\* list of the entries, for every list.
C25_SplitGivesEntries ==
  classpath_file.written =>
    /\ Terminated(classpath_file.text)
    /\ WellFormedFile(LinesOf(classpath_file.text))
    /\ Split(ExportValue(LinesOf(classpath_file.text)[1])) = deps_to_write

\* C25, amended: the file is the export line and one comment line for each
\* entry; the value of the export line, split at the colons, is the list of
\* the entries when the list is not empty, and the list of one empty entry
\* when it is empty.
C25_ClasspathFile ==
  classpath_file.written =>
    /\ Terminated(classpath_file.text)
    /\ WellFormedFile(LinesOf(classpath_file.text))
    /\ Split(ExportValue(LinesOf(classpath_file.text)[1])) =
         IF deps_to_write = <<>> THEN << <<>> >> ELSE deps_to_write

\* C25, witness: a file written for three entries, one of them twice
C25_Witness ==
  /\ classpath_file.written
  /\ deps_to_write = <<DepH10, DepG10, DepH10>>
  /\ Len(LinesOf(classpath_file.text)) = 4

-----------------------------------------------------------------------------
(* The project name of a jar, as a function of its file name *)

Names == {<<"g">>, <<"a", "-", "b">>, <<"l", "3">>}

Versions == {<<"1", ".", "0">>, <<"2", ".", "1", ".", "0">>, <<"1", "0", ".", "2">>}

Qualifiers ==
  {<<>>,
   <<"-", "t", "e", "s", "t", "s">>,
   <<".", "F", "i", "n", "a", "l">>,
   <<"-", "G", "A">>,
   <<".", "C", "R", "1">>,
   <<".", "C", "R", "2">>,
   <<"-", "M", "1">>,
   <<"-", "M", "1", "2">>,
   <<"-", "3">>,
   <<"-", "2", "0", "1", "4">>}

\* <name>-<version><qualifier>.jar
VersionedName(n, v, q) == n \o <<"-">> \o v \o q \o DOT_JAR

\* file names that are no jar of the form <name>-<version><qualifier>.jar: a
\* text file, and a checksum file whose name holds ".jar" twice
OtherNames ==
  {<<"g", ".", "t", "x", "t">>,
   <<"x", "-", "1", "-", "2", ".", "0", ".", "j", "a", "r", ".", "0", ".", "j", "a", "r",
     ".", "m", "d", "5">>}

\* file names with a version suffix, and file names without one
Filenames ==
  {VersionedName(n, v, q) : n \in Names, v \in Versions, q \in Qualifiers}
    \cup {n \o DOT_JAR : n \in Names}
    \cup OtherNames

\* no sandbox is looked at
NoSandbox == fs = <<>> /\ runStartFs = <<>> /\ bundled = <<>> /\ Idle

InitIdentity ==
  /\ fname \in Filenames
  /\ ident = NoIdent
  /\ ident2 = NoIdent
  /\ NoSandbox
  /\ SelectIdle /\ LocateIdle /\ ParseIdle /\ GatherIdle /\ WriteIdle /\ LifeIdle

\* a call of _get_jar_project_name on a jar of the Maven repository
GetJarProjectName ==
  /\ ~ident.done
  /\ LET project == _get_jar_project_name(Join(M2, fname))
     IN ident' = [done |-> TRUE, ok |-> project.ok, name |-> project.name]
  /\ UNCHANGED <<exceptIdent, fname, ident2>>

\* a call of _get_jar_project_name on the project name that the first call
\* returned
GetJarProjectNameAgain ==
  /\ ident.done /\ ident.ok
  /\ ~ident2.done
  /\ LET project == _get_jar_project_name(ident.name)
     IN ident2' = [done |-> TRUE, ok |-> project.ok, name |-> project.name]
  /\ UNCHANGED <<exceptIdent, fname, ident>>

SpecIdentity == InitIdentity /\ [][GetJarProjectName \/ GetJarProjectNameAgain]_vars

-----------------------------------------------------------------------------
(* The choice of the release archive, as a function of the directory       *)
(* listing and of --bento-version                                          *)

\* most files in the working directory
MaxListing == 3

ArchiveName(n, v) == KIJI_BENTO \o <<"-">> \o n \o <<"-">> \o v \o DASH_RELEASE_TGZ

TgzA120 == ArchiveName(<<"a">>, <<"1", ".", "2", ".", "0">>)
TgzA130 == ArchiveName(<<"a">>, <<"1", ".", "3", ".", "0">>)
TgzB120 == ArchiveName(<<"b">>, <<"1", ".", "2", ".", "0">>)
TgzA1100 == ArchiveName(<<"a">>, <<"1", ".", "1", "0", ".", "0">>)
NotesTxt == <<"n", "o", "t", "e", "s", ".", "t", "x", "t">>

\* the files the working directory may hold: archives of two products, an
\* archive with a two-digit version component, and a file that is no archive
RootFiles == {TgzA120, TgzA130, TgzB120, TgzA1100, NotesTxt}

\* the lists os.listdir may return: no name twice
Listings ==
  {l \in UNION {[1..n -> RootFiles] : n \in 0..MaxListing} :
     \A i, j \in DOMAIN l : i # j => l[i] # l[j]}

\* the values of --bento-version
Versions3 ==
  {None, <<"1", ".", "2", ".", "0">>, <<"1", ".", "3", ".", "0">>, <<"9", ".", "9", ".", "9">>}

InitSelect ==
  /\ listing \in Listings
  /\ wanted \in Versions3
  /\ chosen = NoChoice
  /\ NoSandbox
  /\ IdentityIdle /\ LocateIdle /\ ParseIdle /\ GatherIdle /\ WriteIdle /\ LifeIdle

\* a call of _find_bento_tgz
FindBentoTgz ==
  /\ ~chosen.done
  /\ LET r == _find_bento_tgz(listing, wanted)
     IN chosen' = [done |-> TRUE, ok |-> r.ok, tgz |-> r.tgz, err |-> r.err]
  /\ UNCHANGED <<exceptSelect, listing, wanted>>

SpecSelect == InitSelect /\ [][FindBentoTgz]_vars

-----------------------------------------------------------------------------
(* The locator on its own: _get_locally_built_jar_for_target over the trees *)
(* a build may leave under the working directory                           *)

\* the most files a tree under test holds
MaxTreeFiles == 4

\* the directory <root_dir>/<module>/target
TargetOf(m) == Join(Join(root_dir, m), TARGET)

\* the build output of the submodule q of module s
SubmoduleJarPath ==
  Join(Join(Join(Join(root_dir, ModS), <<"q">>), TARGET), SnapshotName(KIJI_DASH \o ModS, V110))

\* a copy of the build output below target/x/lib
NestedJarPath ==
  Join(Join(Join(TargetOf(ModS), <<"x">>), LIB), SnapshotName(KIJI_DASH \o ModS, V110))

\* the checksum file Maven writes next to the build output
ChecksumPath ==
  Join(TargetOf(ModS), SnapshotName(KIJI_DASH \o ModS, V110) \o <<".", "m", "d", "5">>)

\* a file of target/ whose name has no dot before 'jar'
NoDotPath ==
  Join(TargetOf(ModS), KIJI_DASH \o ModS \o <<"-">> \o V110 \o DASH_SNAPSHOT \o <<"x">> \o JAR)

\* the files a tree under test may hold
TreeFiles ==
  {LocalJarPath(ModS), LocalJarPath(ModT), SubmoduleJarPath, NestedJarPath,
   ChecksumPath, NoDotPath}

\* the trees under test
Trees ==
  {[p \in S |-> File("built")] : S \in {T \in SUBSET TreeFiles : Cardinality(T) <= MaxTreeFiles}}

InitLocate ==
  /\ fs \in Trees
  /\ sought \in {KIJI_DASH \o m : m \in Modules}
  /\ located = NoLocated
  /\ runStartFs = <<>> /\ bundled = <<>> /\ Idle
  /\ IdentityIdle /\ SelectIdle /\ ParseIdle /\ GatherIdle /\ WriteIdle /\ LifeIdle

\* a call of _get_locally_built_jar_for_target: the first assertion fails on
\* no match, the second on more than one
GetLocallyBuiltJar ==
  /\ ~located.done
  /\ LET r == _get_locally_built_jar_for_target(fs, sought)
         n == Cardinality(r.matching_jars)
     IN located' = [done |-> TRUE, ok |-> r.ok,
                    jar |-> IF r.ok THEN r.jar ELSE <<>>,
                    err |-> IF n = 0 THEN "ArtifactNotFound"
                            ELSE IF n = 1 THEN "none" ELSE "AmbiguousArtifact",
                    matching_jars |-> r.matching_jars]
  /\ UNCHANGED <<exceptLocate, sought>>

SpecLocate == InitLocate /\ [][GetLocallyBuiltJar]_vars

-----------------------------------------------------------------------------
(* The classpath parsing on its own *)

\* the most lines an output under test holds
MaxLines == 3

\* a log line that is not the marker
InfoLine == <<"[", "I", "N", "F", "O", "]", " ", "B", "U", "I", "L", "D">>

\* a line of another log level, with a colon in it
WarningLine == <<"[", "W", "A", "R", "N", "I", "N", "G", "]", " ", "a", ":", "b">>

\* a classpath of two entries, a classpath of one entry
TwoPaths == DepG10 \o COLON \o DepKijiS
OnePath == DepG20

\* the lines Maven may print
MavenLines == {DEPENDENCIES_CLASSPATH, InfoLine, WarningLine, TwoPaths, OnePath, <<>>}

\* the outputs under test
MavenOutputs == UNION {[1..n -> MavenLines] : n \in 0..MaxLines}

InitParse ==
  /\ maven_output \in MavenOutputs
  /\ parsed = NoParse
  /\ NoSandbox
  /\ IdentityIdle /\ SelectIdle /\ LocateIdle /\ GatherIdle /\ WriteIdle /\ LifeIdle

\* a call of get_classpath_from_maven
GetClasspathFromMaven ==
  /\ ~parsed.done
  /\ LET r == get_classpath_from_maven(maven_output)
     IN parsed' = [done |-> TRUE, ok |-> r.ok, dependencies |-> r.dependencies, err |-> r.err]
  /\ UNCHANGED <<exceptParse, maven_output>>

SpecParse == InitParse /\ [][GetClasspathFromMaven]_vars

-----------------------------------------------------------------------------
(* update-lib-jars with the classpath gathered module by module *)

\* the entries the classpath of a module may hold
ClasspathEntries == {DepG10, DepG10Kiji, DepH10}

\* the classpaths Maven may print for a module
Classpaths == UNION {[1..n -> ClasspathEntries] : n \in 0..MaxDeps}

\* the classpaths of the modules of ms; the other modules are not built
ClasspathsOf(ms) ==
  {r \in [Modules -> Classpaths] :
     \A m \in Modules : (\A i \in DOMAIN ms : ms[i] # m) => r[m] = <<>>}

\* the sandbox of the archive that bundles the modules s and t in lib
InitGather ==
  /\ Init
  /\ \A p \in DOMAIN fs : ~StartsWith(p, BentoCluster)

\* _do_action_update_lib_jars up to the loop of get_dependency_jars, for
\* --link-modules naming no module twice
GatherStart ==
  /\ pc = "idle"
  /\ raw = <<>>
  /\ \E ms \in ModLists :
       /\ \A i, j \in DOMAIN ms : i # j => ms[i] # ms[j]
       /\ tool' = "update"
       /\ mods' = ms
       /\ \E r \in ClasspathsOf(ms) : raw' = r
       /\ deps' = <<>>
       /\ depsLeft' = <<>>
       /\ runStartFs' = fs
       /\ rerun' = "none"
       /\ cur' = NoFile
       /\ copied' = <<>>
       /\ added_jars' = <<>>
       /\ local' = NoFile
       /\ jarsLeft' = {}
       /\ IF IsDir(fs, bento_dir) /\ _get_bento_box_original_jars(fs).ok
          THEN pc' = "gather" /\ result' = "running" /\ modsLeft' = ms
          ELSE pc' = "done" /\ result' = "failed" /\ modsLeft' = <<>>
  /\ UNCHANGED <<fs, bundled, identVars, selectVars, locateVars, parseVars, writeVars, lifeVars>>

\* one iteration of "for module in self._link_modules" of get_dependency_jars
GatherModule ==
  /\ pc = "gather"
  /\ modsLeft # <<>>
  /\ LET module == Head(modsLeft)
         found == _get_locally_built_jar_for_target(fs, KIJI_DASH \o module)
     IN IF ~found.ok
        THEN EndRun("failed") /\ UNCHANGED deps
        ELSE /\ deps' = ExtendDependencyJars(deps, BentoClasspath_dependencies(raw[module]))
             /\ modsLeft' = Tail(modsLeft)
             /\ UNCHANGED <<pc, result, jarsLeft, local>>
  /\ UNCHANGED <<fs, tool, mods, cur, depsLeft, added_jars, copied, runStartFs, rerun,
                 bundled, otherVars>>

\* get_dependency_jars returns: the loop over dependency_jars starts
GatherDone ==
  /\ pc = "gather"
  /\ modsLeft = <<>>
  /\ pc' = "dep"
  /\ depsLeft' = deps
  /\ UNCHANGED <<fs, tool, mods, modsLeft, jarsLeft, cur, local, deps, added_jars, result,
                 copied, runStartFs, rerun, bundled, otherVars>>

SpecGather ==
  InitGather /\ [][GatherStart \/ GatherModule \/ GatherDone \/ UpdateDep \/ UpdateDone]_vars

-----------------------------------------------------------------------------
(* The life cycle of the sandbox: install-bento (unpack-bento) and run-bento *)

\* the most lines jps prints
MaxJps == 3

\* the lines jps may print, as line.split() sees them: a process without a
\* name, jps itself, two Java processes, a line of three words
JpsLines == {<<"1">>, <<"2", "Jps">>, <<"3", "HMaster">>, <<"4", "NameNode">>,
             <<"5", "a", "b">>}

\* the outputs of jps: no process is listed twice
JpsOutputs ==
  {l \in UNION {[1..n -> JpsLines] : n \in 0..MaxJps} :
     \A i, j \in DOMAIN l : i # j => l[i] # l[j]}

\* the root directories under test
LifeListings == {<<>>, <<TgzA120>>, <<TgzA120, TgzA130>>, <<TgzA1100, TgzA120>>}

\* the most actions a caller lists
MaxPlan == 3

\* the values of --action that _parse_options accepts in the plans under test
RebooterActions == {"help-actions", "install-bento", "link-jars", "run-bento"}
JarCopierActions == {"unpack-bento"}

\* the action plans under test: the actions in the order and as often as the
\* caller lists them
Plans ==
  {<<"BentoRebooter", a>> : a \in UNION {[1..n -> RebooterActions] : n \in 0..MaxPlan}}
    \cup {<<"JarCopier", a>> : a \in UNION {[1..n -> JarCopierActions] : n \in 0..MaxPlan}}

\* what the start command may print
BENTO_CLUSTER_STARTED ==
  <<"b", "e", "n", "t", "o", "-", "c", "l", "u", "s", "t", "e", "r", " ", "s", "t", "a",
    "r", "t", "e", "d">>

StartOutputs ==
  {<<>>,
   BENTO_CLUSTER_STARTED,
   <<"o", "k", " ">> \o BENTO_CLUSTER_STARTED \o <<".">>,
   <<"b", "e", "n", "t", "o", "-", "c", "l", "u", "s", "t", "e", "r", " ", "f", "a",
     "i", "l", "e", "d">>}

\* an exit status of a subprocess: zero, or one that makes run(cmd) raise
ExitCodes == {0, 1}

\* os.path.isdir and os.path.exists of self._bento_dir
IsDirPath(s) == s = "dir"
ExistsPath(s) == s # "absent"

\* _untar_bento before tar: a directory is removed, and the path must be free
_untar_bento_rmtree(s) == IF IsDirPath(s) THEN "absent" ELSE s

\* an assertion after tar that is never made
_untar_bento_unchecked(s) == TRUE

\* _untar_bento after tar: assert os.path.exists(self._bento_dir)
_untar_bento_check(s) == ExistsPath(s)

\* a check of the start command that accepts every output
started_anyhow(results) == TRUE

\* results.find('bento-cluster started') != -1
started_correctly(results) == Find(results, BENTO_CLUSTER_STARTED)

\* the install action of the script
InstallAction == IF script = "BentoRebooter" THEN "install-bento" ELSE "unpack-bento"

\* a test that looks at the first action of the plan only
RequestedFirst(action) == actions # <<>> /\ actions[1] = action

\* action in self._actions
Requested(action) == \E i \in DOMAIN actions : actions[i] = action

\* the action starts
Runs(action) == ran' = Append(ran, [action |-> action, sandbox |-> sandbox])

InitLife ==
  /\ listing \in LifeListings
  /\ wanted \in {None, <<"1", ".", "2", ".", "0">>}
  /\ chosen = NoChoice
  /\ \E plan \in Plans : script = plan[1] /\ actions = plan[2]
  /\ step = "parse_options"
  /\ jps_results = <<>>
  /\ sandbox \in {"absent", "dir", "file"}
  /\ sandbox0 = sandbox
  /\ trail = <<>>
  /\ installed = "none"
  /\ started = NotStarted
  /\ running = FALSE
  /\ outcome = "none"
  /\ ran = <<>> /\ killed = <<>> /\ jps_out = <<>>
  /\ NoSandbox
  /\ IdentityIdle /\ LocateIdle /\ ParseIdle /\ GatherIdle /\ WriteIdle

\* the script ends with an exception
\* a script that notes the error of a step and goes on
FailsAndGoesOn(err) == step' = step /\ outcome' = err

\* an exception that nothing catches (go has no try) ends the script
Fails(err) == step' = "done" /\ outcome' = err

\* _parse_options: _get_bento_dir_name finds the archive and takes the name
\* of the sandbox directory from it
ParseOptions ==
  /\ step = "parse_options"
  /\ LET r == _find_bento_tgz(listing, wanted)
     IN IF Requested("help-actions") THEN step' = "done" /\ outcome' = "help"
        ELSE IF ~r.ok THEN Fails(r.err)
        ELSE IF ~p_bento(r.tgz).matched THEN Fails("NoRegexMatch")
        ELSE step' = "run_actions" /\ UNCHANGED outcome
  /\ UNCHANGED <<runVars, identVars, selectVars, locateVars, parseVars, gatherVars, writeVars,
                 script,
                 actions, jps_results, sandbox, sandbox0, trail, installed, started, running,
                 lifeHist>>

\* the start of _run_actions: JarCopier asserts that the sandbox directory
\* exists before anything else, BentoRebooter does not
RunActions ==
  /\ step = "run_actions"
  /\ IF script = "JarCopier" /\ ~IsDirPath(sandbox)
     THEN Fails("SandboxMissing") /\ UNCHANGED ran
     ELSE IF Requested(InstallAction)
     THEN step' = "jps" /\ Runs(InstallAction) /\ UNCHANGED outcome
     ELSE step' = "assert_dir" /\ UNCHANGED <<outcome, ran>>
  /\ UNCHANGED <<runVars, identVars, selectVars, locateVars, parseVars, gatherVars, writeVars,
                 script,
                 actions, jps_results, sandbox, sandbox0, trail, installed, started, running,
                 killed, jps_out>>

\* an install that removes the sandbox directory before it lists the processes
JpsAfterRmtree ==
  /\ step = "jps"
  /\ sandbox' = _untar_bento_rmtree(sandbox)
  /\ \E code \in ExitCodes, out \in JpsOutputs :
       IF code # 0
       THEN /\ Fails("ExternalCommandFailed") /\ installed' = "failed"
            /\ UNCHANGED <<jps_results, jps_out>>
       ELSE /\ step' = "kill" /\ jps_results' = out /\ jps_out' = out
            /\ UNCHANGED <<outcome, installed>>
  /\ UNCHANGED <<runVars, identVars, selectVars, locateVars, parseVars, gatherVars, writeVars,
                 script,
                 actions, sandbox0, trail, started, running, ran, killed>>

\* _kill_stale_java_processes: run('jps')
Jps ==
  /\ step = "jps"
  /\ \E code \in ExitCodes, out \in JpsOutputs :
       IF code # 0
       THEN /\ Fails("ExternalCommandFailed") /\ installed' = "failed"
            /\ UNCHANGED <<jps_results, jps_out>>
       ELSE /\ step' = "kill" /\ jps_results' = out /\ jps_out' = out
            /\ UNCHANGED <<outcome, installed>>
  /\ UNCHANGED <<runVars, identVars, selectVars, locateVars, parseVars, gatherVars, writeVars,
                 script,
                 actions, sandbox, sandbox0, trail, started, running, ran, killed>>

\* a loop that passes over the lines of one word only
skips_short_line(toks) == Len(toks) = 1

\* the two "continue" of the loop of _kill_stale_java_processes: a line of
\* one word, and the line of jps itself
skips_line(toks) == Len(toks) = 1 \/ (Len(toks) = 2 /\ toks[2] = "Jps")

\* one iteration of "for line in jps_results.splitlines()"
KillLine ==
  /\ step = "kill"
  /\ jps_results # <<>>
  /\ LET toks == Head(jps_results)
     IN IF skips_line(toks)
        THEN /\ jps_results' = Tail(jps_results)
             /\ UNCHANGED <<step, outcome, installed, trail, killed>>
        ELSE IF Len(toks) # 2
        THEN /\ Fails("JpsFormat") /\ installed' = "failed"
             /\ UNCHANGED <<jps_results, trail, killed>>
        ELSE /\ trail' = Append(trail, [step |-> "kill", sandbox |-> sandbox])
             /\ killed' = Append(killed, toks[1])
             /\ \E code \in ExitCodes :
                  IF code # 0
                  THEN /\ Fails("ExternalCommandFailed")
                       /\ installed' = "failed"
                       /\ UNCHANGED jps_results
                  ELSE /\ jps_results' = Tail(jps_results)
                       /\ UNCHANGED <<step, outcome, installed>>
  /\ UNCHANGED <<runVars, identVars, selectVars, locateVars, parseVars, gatherVars, writeVars,
                 script,
                 actions, sandbox, sandbox0, started, running, ran, jps_out>>

\* the loop over the lines of jps is exhausted; _find_bento_tgz, then
\* _untar_bento up to the assertion that nothing is at the sandbox path
Rmtree ==
  /\ step = "kill"
  /\ jps_results = <<>>
  /\ LET r == _find_bento_tgz(listing, wanted)
     IN IF ~r.ok
        THEN Fails(r.err) /\ installed' = "failed" /\ UNCHANGED <<sandbox, trail>>
        ELSE /\ sandbox' = _untar_bento_rmtree(sandbox)
             /\ trail' = IF IsDirPath(sandbox)
                         THEN Append(trail, [step |-> "rmtree", sandbox |-> sandbox])
                         ELSE trail
             /\ IF ExistsPath(sandbox')
                THEN Fails("PathInUse") /\ installed' = "failed"
                ELSE step' = "tar" /\ UNCHANGED <<outcome, installed>>
  /\ UNCHANGED <<runVars, identVars, selectVars, locateVars, parseVars, gatherVars, writeVars,
                 script,
                 actions, jps_results, sandbox0, started, running, lifeHist>>

\* _untar_bento: tar runs; the archive holds the sandbox directory or it does
\* not; the assertion that the path exists ends _do_action_install_bento
Tar ==
  /\ step = "tar"
  /\ trail' = Append(trail, [step |-> "tar", sandbox |-> sandbox])
  /\ \E code \in ExitCodes, extracted \in {"absent", "dir"} :
       IF code # 0
       THEN /\ Fails("ExternalCommandFailed") /\ installed' = "failed"
            /\ sandbox' \in {sandbox, extracted}
       ELSE /\ sandbox' = extracted
            /\ IF _untar_bento_check(sandbox')
               THEN step' = "assert_dir" /\ installed' = "ok" /\ UNCHANGED outcome
               ELSE Fails("NotExtracted") /\ installed' = "failed"
  /\ UNCHANGED <<runVars, identVars, selectVars, locateVars, parseVars, gatherVars, writeVars,
                 script,
                 actions, jps_results, sandbox0, started, running, lifeHist>>

\* _run_actions after the install action: assert os.path.isdir(self._bento_dir)
AssertDir ==
  /\ step = "assert_dir"
  /\ IF ~IsDirPath(sandbox) THEN Fails("SandboxMissing")
     ELSE IF script = "BentoRebooter" /\ Requested("link-jars")
     THEN step' = "link_jars" /\ UNCHANGED outcome
     ELSE IF script = "BentoRebooter" /\ Requested("run-bento")
     THEN step' = "run_bento" /\ UNCHANGED outcome
     ELSE step' = "done" /\ outcome' = "ok"
  /\ UNCHANGED <<runVars, identVars, selectVars, locateVars, parseVars, gatherVars, writeVars,
                 script,
                 actions, jps_results, sandbox, sandbox0, trail, installed, started, running,
                 lifeHist>>

\* _do_action_link_jars as a whole: it changes files below the sandbox
\* directory, and it returns or one of its assertions fails; then the tests
\* of _run_actions for the actions that are not among possible_actions
\* ('setup_classpath', 'run-scoring-server') are false
LinkJars ==
  /\ step = "link_jars"
  /\ Runs("link-jars")
  /\ \E ok \in BOOLEAN :
       IF ~ok THEN Fails("LinkJarsFailed")
       ELSE IF Requested("run-bento") THEN step' = "run_bento" /\ UNCHANGED outcome
       ELSE step' = "done" /\ outcome' = "ok"
  /\ UNCHANGED <<runVars, identVars, selectVars, locateVars, parseVars, gatherVars, writeVars,
                 script,
                 actions, jps_results, sandbox, sandbox0, trail, installed, started, running,
                 killed, jps_out>>

\* _do_action_run_bento: the start command, then the search for the marker
RunBento ==
  /\ step = "run_bento"
  /\ Runs("run-bento")
  /\ \E code \in ExitCodes, results \in StartOutputs :
       /\ started' = [done |-> TRUE, code |-> code, results |-> results]
       /\ IF code # 0 THEN Fails("ExternalCommandFailed") /\ UNCHANGED running
          ELSE IF ~started_correctly(results)
          THEN Fails("StartupVerificationFailed") /\ UNCHANGED running
          ELSE step' = "done" /\ outcome' = "ok" /\ running' = TRUE
  /\ UNCHANGED <<runVars, identVars, selectVars, locateVars, parseVars, gatherVars, writeVars,
                 script,
                 actions, jps_results, sandbox, sandbox0, trail, installed, killed, jps_out>>

SpecLife ==
  InitLife /\ [][ParseOptions \/ RunActions \/ Jps \/ KillLine \/ Rmtree \/ Tar
                   \/ AssertDir \/ LinkJars \/ RunBento]_vars

-----------------------------------------------------------------------------
(* Properties of link-jars and copy-kiji-jars *)

\* the .bak files of a file system
BakFiles(f) == {p \in DOMAIN f : EndsWith(p, DOT_BAK)}

\* the bundled jars of module m, as _get_bento_jars_for_target finds them in
\* the sandbox the archive was extracted to
BundledJarsOf(m) == _get_bento_jars_for_target(bundled, KIJI_DASH \o m)

\* the modules of a --link-modules list
ModsOf(ms) == {ms[i] : i \in DOMAIN ms}

\* the content of the originally bundled jar is in the sandbox, at the .jar
\* path or at the .bak path
OriginalPresent(f, j) ==
  \/ j \in DOMAIN f /\ f[j] = bundled[j]
  \/ BackupOf(j) \in DOMAIN f /\ f[BackupOf(j)] = bundled[j]

\* the sandbox jar j is the local build of module m, as action t installs it
Installed(f, t, m, j) ==
  /\ j \in DOMAIN f
  /\ IF t = "link" THEN f[j] = Link(LocalJarPath(m)) ELSE f[j] = f[LocalJarPath(m)]

\* C1: a link-jars run leaves every .bak file that existed before it in place
\* with its content, and a link-jars run that repeats a successful link-jars
\* run with the same modules succeeds and ends in the directory state it
\* started from (the state the first run reached).
C1_LinkJarsTwice ==
  (pc = "done" /\ tool = "link" /\ result \in {"ok", "failed"}) =>
    /\ \A p \in BakFiles(runStartFs) : p \in DOMAIN fs /\ fs[p] = runStartFs[p]
    /\ rerun = "ok" => (result = "ok" /\ fs = runStartFs)

\* C2: a copy-kiji-jars run that repeats a successful copy-kiji-jars run with
\* the same modules does not fail, and a .bak file that held the content of
\* the originally bundled jar when it started still holds it when it ends.
C2_CopyKeepsOriginalInBak ==
  (pc = "done" /\ tool = "copy" /\ rerun = "ok" /\ result # "killed") =>
    /\ result = "ok"
    /\ \A j \in DOMAIN bundled :
         (BackupOf(j) \in DOMAIN runStartFs /\ runStartFs[BackupOf(j)] = bundled[j])
           => (BackupOf(j) \in DOMAIN fs /\ fs[BackupOf(j)] = bundled[j])

\* C3: when the replacement is about to be placed, the jar was renamed to its
\* .bak companion and the destination holds no regular file; and in every
\* state of link-jars and copy-kiji-jars runs the content of each originally
\* bundled jar is in the sandbox at its .jar path or at its .bak path.
C3_BackupFirst ==
  /\ pc = "place" => (~IsFile(fs, cur) /\ IsFile(fs, BackupOf(cur)))
  /\ \A j \in DOMAIN bundled : OriginalPresent(fs, j)

\* C6: a complete run that repeats a killed run (same action, same modules),
\* started with every original still in the sandbox at its .jar or .bak path,
\* ends with every bundled jar of every requested module replaced by the local
\* build and its original in .bak.
C6_RerunRecoversKilledRun ==
  (/\ pc = "done" /\ tool \in {"link", "copy"} /\ result = "ok" /\ rerun = "killed"
   /\ \A j \in DOMAIN bundled : OriginalPresent(runStartFs, j))
    => \A m \in ModsOf(mods) : \A j \in BundledJarsOf(m) :
         /\ Installed(fs, tool, m, j)
         /\ BackupOf(j) \in DOMAIN fs /\ fs[BackupOf(j)] = bundled[j]

\* the step from this state to the next is the backup of the sandbox jar j
BackupStepOn(j) ==
  /\ pc = "jar" /\ j \in jarsLeft /\ cur' = j
  /\ (pc' = "place" \/ result' = "failed")

\* the destination j is a regular file without a .bak companion
RegularWithoutBackup(j) ==
  /\ j \in DOMAIN fs /\ fs[j].k = "file"
  /\ BackupOf(j) \notin DOMAIN fs

\* C7 as claimed: the swap of a destination that is a regular file without a
\* .bak companion fails and leaves the destination as it was.
C7_UnsafeOverwriteRefused ==
  [][\A j \in jarsLeft :
       (BackupStepOn(j) /\ RegularWithoutBackup(j)) => (result' = "failed" /\ fs' = fs)]_vars

\* C7, amended: the swap of a destination that is a regular file without a
\* .bak companion does not fail: the backup step renames the destination to its
\* .bak companion, and the step after it places the replacement at the
\* destination path.
C7_RegularFileIsBackedUp ==
  [][/\ \A j \in jarsLeft :
          (BackupStepOn(j) /\ RegularWithoutBackup(j)) =>
            /\ pc' = "place"
            /\ j \notin DOMAIN fs'
            /\ BackupOf(j) \in DOMAIN fs' /\ fs'[BackupOf(j)] = fs[j]
     /\ (pc = "place" /\ result' # "killed") =>
          /\ result' = "running"
          /\ \E m \in Modules : Installed(fs', tool, m, cur)
          /\ fs'[BackupOf(cur)] = fs[BackupOf(cur)]]_vars

\* C7, witness: a bundled jar that had no .bak companion was renamed to .bak
\* and its replacement is about to be placed
C7_Witness ==
  /\ pc = "place"
  /\ cur \in DOMAIN bundled /\ runStartFs[cur] = bundled[cur]
  /\ BackupOf(cur) \notin DOMAIN runStartFs
  /\ cur \notin DOMAIN fs
  /\ fs[BackupOf(cur)] = bundled[cur]

-----------------------------------------------------------------------------
(* Properties of update-lib-jars *)

\* the project name n matches the denylist
Denylisted(n) == Find(n, KIJI) \/ Find(n, HADOOP) \/ Find(n, HBASE)

\* the positions of deps whose entry has a project name that is not denylisted
Installable == {i \in DOMAIN deps :
                 /\ _get_jar_project_name(deps[i]).ok
                 /\ ~Denylisted(_get_jar_project_name(deps[i]).name)}

\* the positions of deps that the run copied
Copied == {copied[k] : k \in DOMAIN copied}

\* C4: at the end of a successful update-lib-jars run, an entry with a project
\* name that is not denylisted was copied exactly when no earlier entry of the
\* list has the same project name.
C4_FirstSeenWins ==
  (pc = "done" /\ tool = "update" /\ result = "ok") =>
    \A i \in Installable :
      (i \in Copied) <=>
        ~\E j \in 1..(i - 1) :
            _get_jar_project_name(deps[j]).name = _get_jar_project_name(deps[i]).name

WidgetsJar == Join(BentoLib, JarName(WIDGETS, V200))

\* C5: an update-lib-jars run on the classpath <<widgets-2.1.0-SNAPSHOT.jar>>,
\* with widgets-2.0.0.jar in the lib directory, succeeds, leaves the original
\* in widgets-2.0.0.bak and the content of the snapshot jar at
\* widgets-2.0.0.jar; the same run a second time succeeds and changes nothing.
C5_WidgetsScenario ==
  (/\ pc = "done" /\ tool = "update" /\ result # "killed"
   /\ deps = <<DepWidgetsSnapshot>>
   /\ IsFile(runStartFs, WidgetsJar)) =>
    /\ result = "ok"
    /\ BackupOf(WidgetsJar) \in DOMAIN fs
    /\ fs[BackupOf(WidgetsJar)] = bundled[WidgetsJar]
    /\ WidgetsJar \in DOMAIN fs
    /\ fs[WidgetsJar] = fs[DepWidgetsSnapshot]
    /\ rerun = "ok" => fs = runStartFs

\* C8: a step of the loop of update-lib-jars copies no entry whose project
\* name is denylisted, and copies every entry whose project name is not
\* denylisted and was not added before in the run.
C8_DenylistByIdentity ==
  [][(pc = "dep" /\ depsLeft # <<>> /\ result' # "killed") =>
       LET project == _get_jar_project_name(Head(depsLeft))
       IN /\ (project.ok /\ Denylisted(project.name)) => copied' = copied
          /\ (project.ok /\ ~Denylisted(project.name)
                /\ project.name \notin DOMAIN added_jars) => copied' # copied]_vars

-----------------------------------------------------------------------------
(* The frame of the three actions *)

\* the paths that a step creates, removes or changes
Touched == {p \in DOMAIN fs \cup DOMAIN fs' :
              p \notin DOMAIN fs \/ p \notin DOMAIN fs' \/ fs[p] # fs'[p]}

\* C9: every path that a step of link-jars, copy-kiji-jars or update-lib-jars
\* creates, removes or changes is directly in the lib directory of the sandbox.
C9_OnlyLibTouched ==
  [][\A p \in Touched : Dirname(p) = BentoLib]_vars

-----------------------------------------------------------------------------
(* Properties of the project name *)

\* C10: the project name of <name>-<version><qualifier>.jar is <name>; the
\* call fails only for file names without a version suffix, and never returns
\* a name that ends in "jar".
C10_IdentityStripsVersion ==
  ident.done =>
    /\ \A n \in Names, v \in Versions, q \in Qualifiers :
         fname = VersionedName(n, v, q) => (ident.ok /\ ident.name = n)
    /\ ident.ok => ~EndsWith(ident.name, JAR)

\* C11: when _get_jar_project_name succeeds on a file name, it succeeds on the
\* name it returned and returns that name again.
C11_IdentityIdempotent ==
  ident2.done => (ident2.ok /\ ident2.name = ident.name)

-----------------------------------------------------------------------------
(* Properties of the choice of the release archive *)

\* the archives of the listing: the names _find_bento_tgz considers
Candidates == {listing[i] : i \in {j \in DOMAIN listing :
                 EndsWith(listing[j], DOT_TAR_GZ) /\ StartsWith(listing[j], KIJI_BENTO)}}

\* the archives of the listing whose version is the requested one
WithWantedVersion ==
  {c \in Candidates : p_bento(c).matched /\ p_bento(c).version = wanted}

\* the orders in which os.listdir may return the names of the listing
Reorderings ==
  {[i \in DOMAIN listing |-> listing[f[i]]] : f \in Permutations(DOMAIN listing)}

\* the outcome of _find_bento_tgz that the state records
Outcome == [ok |-> chosen.ok, tgz |-> chosen.tgz, err |-> chosen.err]

\* C12: with a requested version, _find_bento_tgz fails with NoArchiveFound
\* when the listing has no archive, returns an archive of the requested
\* version when the listing has one, and fails with VersionNotFound exactly
\* when the listing has archives and none of the requested version.
C12_SelectRequestedVersion ==
  (chosen.done /\ wanted # None) =>
    /\ Candidates = {} => Outcome = Raised("NoArchiveFound")
    /\ WithWantedVersion # {} => (chosen.ok /\ chosen.tgz \in WithWantedVersion)
    /\ (Outcome = Raised("VersionNotFound")) <=>
         (Candidates # {} /\ WithWantedVersion = {})

\* C13: without a requested version and with at least one archive in the
\* listing, _find_bento_tgz returns the archive whose file name is the
\* greatest string, and returns the same archive for every order of the listing.
C13_SelectGreatestName ==
  (chosen.done /\ wanted = None /\ Candidates # {}) =>
    /\ chosen.ok
    /\ chosen.tgz \in Candidates
    /\ \A c \in Candidates : ~StrLess(chosen.tgz, c)
    /\ \A l \in Reorderings : _find_bento_tgz(l, None) = Outcome

\* C13, witness: the greatest of three archive names was returned, and it is
\* the first name of the listing
C13_Witness ==
  /\ chosen.done /\ wanted = None /\ chosen.ok
  /\ Len(listing) = 3
  /\ Candidates = {listing[i] : i \in DOMAIN listing}
  /\ chosen.tgz = listing[1]
  /\ chosen.tgz = TgzA130

\* C14: with a requested version, the outcome of _find_bento_tgz (the archive
\* returned or the failure raised) is the same for every order of the listing.
C14_SelectDeterministic ==
  (chosen.done /\ wanted # None) =>
    \A l \in Reorderings : _find_bento_tgz(l, wanted) = Outcome

-----------------------------------------------------------------------------
(* Properties of the locator *)

\* fname is, as a whole, <kiji_target>-<x.y.z>-SNAPSHOT.jar
IsSnapshotJarName(module, s) ==
  Len(s) + 1 \in
    Lit(s, Lit(s, XYZ(s, Lit(s, Lit(s, {1}, module), <<"-">>)), DASH_SNAPSHOT), DOT_JAR)

\* the files directly in a directory named 'target' whose whole name is
\* <target>-<version>-SNAPSHOT.jar
BuildOutputs ==
  {p \in DOMAIN fs : /\ Basename(Dirname(p)) = TARGET
                     /\ IsSnapshotJarName(sought, Basename(p))}

\* C15: _get_locally_built_jar_for_target counts exactly the files directly in
\* a directory named 'target' whose whole name is
\* <kiji_target>-<version>-SNAPSHOT.jar; it fails with ArtifactNotFound on no
\* such file, with AmbiguousArtifact on two or more, and returns the file
\* when there is one.
C15_LocateExactMatches ==
  located.done =>
    /\ located.matching_jars = BuildOutputs
    /\ BuildOutputs = {} => (~located.ok /\ located.err = "ArtifactNotFound")
    /\ Cardinality(BuildOutputs) >= 2 => (~located.ok /\ located.err = "AmbiguousArtifact")
    /\ Cardinality(BuildOutputs) = 1 => (located.ok /\ located.jar \in BuildOutputs)

-----------------------------------------------------------------------------
(* Properties of the classpath *)

\* the positions of the marker line in the output
MarkerAt == {i \in DOMAIN maven_output : maven_output[i] = DEPENDENCIES_CLASSPATH}

\* nothing follows the marker at i, or an '[INFO]' line does
BadFollower(i) ==
  i = Len(maven_output) \/ StartsWith(maven_output[i + 1], INFO)

\* C16: get_classpath_from_maven fails when the output has no marker line,
\* when nothing follows a marker line and when the line after a marker line
\* is an '[INFO]' line; when it succeeds, its result is the colon-split of the
\* line right after a marker line, and an output with one marker line
\* followed by a line that is no '[INFO]' line is parsed to that line's split.
C16_ClasspathFromMarkerLine ==
  parsed.done =>
    /\ MarkerAt = {} => ~parsed.ok
    /\ \A i \in MarkerAt : BadFollower(i) => ~parsed.ok
    /\ parsed.ok => \E i \in MarkerAt :
                      ~BadFollower(i) /\ parsed.dependencies = Split(maven_output[i + 1])
    /\ \A i \in MarkerAt :
         (MarkerAt = {i} /\ ~BadFollower(i)) =>
           (parsed.ok /\ parsed.dependencies = Split(maven_output[i + 1]))

\* the positions of the entries of a classpath in which 'kiji' does not occur
KeptAt(classpath) == {i \in DOMAIN classpath : ~Find(classpath[i], KIJI)}

\* the k-th smallest member of a set of numbers
Nth(S, k) == CHOOSE x \in S : Cardinality({y \in S : y < x}) = k - 1

\* the number of entries without 'kiji' in the classpaths of the first n
\* modules of the run
RECURSIVE KeptBefore(_)
KeptBefore(n) ==
  IF n = 0 THEN 0 ELSE KeptBefore(n - 1) + Cardinality(KeptAt(raw[mods[n]]))

\* the number of modules whose classpath the run has gathered
Gathered ==
  IF pc = "gather" THEN Len(mods) - Len(modsLeft)
  ELSE IF pc = "dep" \/ (pc = "done" /\ result = "ok") THEN Len(mods)
  ELSE 0

-----------------------------------------------------------------------------
(* Properties of the life cycle *)

\* the place of a step in the order of the install: kill, rmtree, tar
StepRank(e) == IF e.step = "kill" THEN 1 ELSE IF e.step = "rmtree" THEN 2 ELSE 3

\* C18: in an install, every kill of a stale process comes before the removal
\* of the sandbox directory, and the removal before the extraction; when tar
\* starts nothing is at the sandbox path; and the install has succeeded only
\* with the sandbox directory in place.
C18_InstallOrder ==
  /\ \A i, j \in DOMAIN trail : i < j => StepRank(trail[i]) <= StepRank(trail[j])
  /\ \A i \in DOMAIN trail : trail[i].step = "tar" => trail[i].sandbox = "absent"
  /\ installed = "ok" => (IsDirPath(sandbox) /\ \E i \in DOMAIN trail : trail[i].step = "tar")

\* C18, witness: an install over an existing sandbox directory succeeded after
\* a stale process was killed, the directory removed and the archive extracted
C18_Witness ==
  /\ installed = "ok"
  /\ sandbox0 = "dir"
  /\ Len(trail) = 3
  /\ trail[1].step = "kill" /\ trail[2].step = "rmtree" /\ trail[3].step = "tar"

\* C19: the sandbox is running only if the start command exited with zero and
\* its output holds 'bento-cluster started'; when the output does not hold it,
\* run-bento fails and the sandbox is not running, and with the exit status
\* zero the failure is StartupVerificationFailed.
C19_StartupVerified ==
  /\ running => (started.done /\ started.code = 0
                   /\ Find(started.results, BENTO_CLUSTER_STARTED))
  /\ (started.done /\ ~Find(started.results, BENTO_CLUSTER_STARTED)) =>
       /\ ~running
       /\ step = "done" /\ outcome \notin {"none", "ok"}
       /\ started.code = 0 => outcome = "StartupVerificationFailed"

\* C19, witness: the start command exited with zero, its output does not hold
\* the marker, and run-bento failed
C19_Witness ==
  /\ started.done /\ started.code = 0
  /\ ~Find(started.results, BENTO_CLUSTER_STARTED)
  /\ started.results # <<>>
  /\ outcome = "StartupVerificationFailed"
  /\ ~running

\* the failures that the environment causes: a subprocess that exits with a
\* status other than zero, a line of jps of more than two words, an archive
\* that does not hold the sandbox directory
EnvironmentFailures == {"ExternalCommandFailed", "JpsFormat", "NotExtracted"}

\* the archives of the listing all have the form of p_bento
WellNamed ==
  /\ listing # <<>>
  /\ \A i \in DOMAIN listing : p_bento(listing[i]).matched

\* C20: a script that started without a sandbox directory, with well-named
\* archives in the root directory and the install action in its plan, and
\* that the environment did not fail, has installed the sandbox: the
\* directory is extracted.
C20_AbsentToExtracted ==
  (/\ step = "done"
   /\ sandbox0 = "absent"
   /\ Requested(InstallAction)
   /\ WellNamed
   /\ outcome \notin EnvironmentFailures) =>
    (installed = "ok" /\ IsDirPath(sandbox))

\* the place of an action in the order of BentoRebooter._run_actions
ActionRank(a) ==
  IF a = "install-bento" THEN 1 ELSE IF a = "link-jars" THEN 2 ELSE 3

\* the caller listed the action a
Listed(a) == \E i \in DOMAIN actions : actions[i] = a

\* the action a was started
Ran(a) == \E i \in DOMAIN ran : ran[i].action = a

\* C21: whatever the order and the multiplicity of the actions the caller
\* lists, BentoRebooter starts only requested actions, each at most once, in
\* the order install-bento, link-jars, run-bento; link-jars and run-bento
\* start only with the sandbox directory in place, and run-bento starts only
\* after link-jars when link-jars is requested; a script that ends without a
\* failure has started every requested action.
C21_ActionOrder ==
  script = "BentoRebooter" =>
    /\ \A i \in DOMAIN ran : Listed(ran[i].action)
    /\ \A i, j \in DOMAIN ran : i < j => ActionRank(ran[i].action) < ActionRank(ran[j].action)
    /\ \A i \in DOMAIN ran :
         ran[i].action \in {"link-jars", "run-bento"} => IsDirPath(ran[i].sandbox)
    /\ (Ran("run-bento") /\ Listed("link-jars")) => Ran("link-jars")
    /\ (step = "done" /\ outcome = "ok") =>
         \A a \in {"install-bento", "link-jars", "run-bento"} : Listed(a) => Ran(a)

\* C21, witness: the caller listed run-bento, link-jars, install-bento, and
\* the script ran install-bento, link-jars, run-bento over no sandbox directory
C21_Witness ==
  /\ script = "BentoRebooter"
  /\ actions = <<"run-bento", "link-jars", "install-bento">>
  /\ sandbox0 = "absent"
  /\ step = "done" /\ outcome = "ok"
  /\ Len(ran) = 3
  /\ ran[1].action = "install-bento" /\ ran[2].action = "link-jars"
  /\ ran[3].action = "run-bento"

\* the positions of the lines of jps with a pid and a job name other than Jps
StaleAt == {i \in DOMAIN jps_out : Len(jps_out[i]) = 2 /\ jps_out[i][2] # "Jps"}

\* the loop over the lines of jps ended without a failure
KillsOver == (step = "kill" /\ jps_results = <<>>) \/ step = "tar" \/ installed = "ok"

Took(k) == \E i \in DOMAIN trail : trail[i].step = k

\* the script failed in _kill_stale_java_processes or in _find_bento_tgz
FailedBeforeUntar ==
  /\ step = "done"
  /\ \/ outcome \in {"JpsFormat", "NoArchiveFound", "VersionNotFound", "NoRegexMatch"}
     \/ (outcome = "ExternalCommandFailed" /\ ~Took("tar") /\ ~started.done)

\* C30: when the script fails while it kills the stale processes (a line of
\* jps of more than two words, jps or a kill that exits with a status other
\* than zero) or while it looks for the archive, the sandbox directory was not
\* removed: what is at the sandbox path is what was there at the start.
C30_FailedInstallKeepsSandbox ==
  FailedBeforeUntar => (sandbox = sandbox0 /\ ~Took("rmtree"))

\* C30, witness: over an existing sandbox directory the install killed one
\* process, the kill of a second one failed, and the directory is in place
C30_Witness ==
  /\ FailedBeforeUntar
  /\ outcome = "ExternalCommandFailed"
  /\ Ran("install-bento")
  /\ Len(killed) = 2
  /\ sandbox0 = "dir" /\ sandbox = "dir"

\* a step of the script has failed
Failed == outcome \notin {"none", "ok", "help"}

\* the number of the steps of the kind k that were taken
Times(k) == Cardinality({i \in DOMAIN trail : trail[i].step = k})

\* C24: when a step fails the script stops at once. A failed script is at its
\* end and takes no further step; no command is given twice (a kill per
\* process, one rmtree, one tar, each action once); after a failed install
\* neither link-jars nor run-bento has run, and after a failed link-jars the
\* sandbox was not started.
C24_StopsAtFailure ==
  /\ [](Failed => step = "done")
  /\ [][~Failed]_vars
  /\ [](/\ \A i, j \in DOMAIN killed : killed[i] = killed[j] => i = j
        /\ Times("rmtree") <= 1 /\ Times("tar") <= 1
        /\ \A i, j \in DOMAIN ran : ran[i].action = ran[j].action => i = j)
  /\ [](installed = "failed" =>
          (~Ran("link-jars") /\ ~Ran("run-bento") /\ ~started.done /\ ~running))
  /\ [](outcome = "LinkJarsFailed" => (~Ran("run-bento") /\ ~started.done /\ ~running))

\* C24, witness: install-bento has run, link-jars failed, and run-bento,
\* which was asked for, did not run
C24_Witness ==
  /\ Failed /\ step = "done"
  /\ outcome = "LinkJarsFailed"
  /\ Ran("install-bento") /\ Ran("link-jars")
  /\ Listed("run-bento") /\ ~Ran("run-bento")

\* p is below the sandbox directory
InSandbox(p) == StartsWith(p, bento_dir \o <<"/">>)

\* C22: install-bento over a sandbox, its jars swapped by link-jars or
\* copy-kiji-jars runs or not, is not refused, and when it returns the tree
\* below the sandbox directory is what the archive holds and nothing else:
\* no .bak, no link to a local build, no other file; the files outside of
\* the sandbox are as they were.
C22_CleanReinstall ==
  tool = "install" =>
    /\ result # "refused"
    /\ result = "ok" =>
         /\ \A p \in DOMAIN bundled : p \in DOMAIN fs /\ fs[p] = bundled[p]
         /\ \A p \in DOMAIN fs : InSandbox(p) => p \in DOMAIN bundled
         /\ \A p \in DOMAIN fs : IsLink(fs, p) => ~InSandbox(p)
         /\ \A p \in DOMAIN runStartFs :
              ~InSandbox(p) => (p \in DOMAIN fs /\ fs[p] = runStartFs[p])

\* C22, witness: the install returned over a sandbox that held a link to a
\* local build, a copy of a local build and two .bak files
C22_Witness ==
  /\ tool = "install" /\ result = "ok"
  /\ \E p \in DOMAIN runStartFs : InSandbox(p) /\ IsLink(runStartFs, p)
  /\ \E p \in DOMAIN runStartFs :
       /\ InSandbox(p) /\ EndsWith(p, DOT_JAR) /\ IsFile(runStartFs, p)
       /\ \E q \in DOMAIN runStartFs : ~InSandbox(q) /\ runStartFs[q] = runStartFs[p]
  /\ Cardinality({p \in DOMAIN runStartFs : InSandbox(p) /\ EndsWith(p, DOT_BAK)}) >= 2

-----------------------------------------------------------------------------
(* update-lib-jars and the jars that the lib directory holds *)

\* the path in the lib directory that _copy_jar_to_bento_lib writes for an entry
LibPathOf(jar_full_path) == Join(Join(bento_dir, LIB), _get_jar_file_name(jar_full_path))

\* C26: an update-lib-jars run copies no entry whose file name was in the lib
\* directory of the sandbox when the run started.
C26_PresentJarNotAdded ==
  tool = "update" =>
    \A k \in DOMAIN copied : LibPathOf(deps[copied[k]]) \notin DOMAIN runStartFs

\* the project name of the k-th entry that the run copied
CopiedProject(k) == _get_jar_project_name(deps[copied[k]]).name

\* C29: in an update-lib-jars run the assertion of _update_added_jars does not
\* fail, so every copy is entered in added_jars: the keys of added_jars are
\* the project names of the entries copied so far, no two copied entries have
\* the same project name, and each key is mapped to the file name of the
\* first (the only) entry copied for it.
C29_AddedJarsTracksCopies ==
  tool = "update" =>
    /\ DOMAIN added_jars = {CopiedProject(k) : k \in DOMAIN copied}
    /\ \A j, k \in DOMAIN copied : CopiedProject(j) = CopiedProject(k) => j = k
    /\ \A k \in DOMAIN copied :
         added_jars[CopiedProject(k)] = _get_jar_file_name(deps[copied[k]])

\* C29, witness: the run copied the first of two entries of one project and
\* passed over the second
C29_Witness ==
  /\ tool = "update" /\ pc = "done" /\ result = "ok"
  /\ deps = <<DepG20, DepG10>>
  /\ copied = <<1>>
  /\ DOMAIN added_jars = {G} /\ added_jars[G] = JarName(G, V20)

-----------------------------------------------------------------------------
(* What a link-jars run leaves *)

\* n is <kiji-module>-<x.y.z>.jar for the module m, and nothing more
IsBundledJarName(m, n) ==
  (Len(n) + 1) \in Lit(n, XYZ(n, Lit(n, {1}, KIJI_DASH \o m \o <<"-">>)), DOT_JAR)

\* the jars of module m in the sandbox tree of the file system f
OccurrencesOf(f, m) ==
  {p \in DOMAIN f : InSandbox(p) /\ IsBundledJarName(m, Basename(p))}

\* the jars in the sandbox tree of f that are not jars of a module of the
\* run, and have a name that starts with the target of one
PrefixJars(f) ==
  {p \in DOMAIN f :
     /\ InSandbox(p) /\ EndsWith(Basename(p), DOT_JAR)
     /\ \E m \in ModsOf(mods) : StartsWith(Basename(p), KIJI_DASH \o m)
     /\ \A m \in ModsOf(mods) : ~IsBundledJarName(m, Basename(p))}

LinkWithoutBackup(j) == IsLink(fs, j) /\ ~IsFile(fs, BackupOf(j))

\* C28: the backup step of link-jars and of copy-kiji-jars on a sandbox jar
\* that is a link and has no .bak companion fails, and the link is not
\* removed: the file system is as it was before the step.
C28_LinkWithoutBackupRefused ==
  [][\A j \in jarsLeft :
       (BackupStepOn(j) /\ LinkWithoutBackup(j)) => (result' = "failed" /\ fs' = fs)]_vars

\* C28, witness: a run failed at the backup of a jar that is a link without
\* a .bak companion, and the link is in place
C28_Witness ==
  /\ pc = "done" /\ result = "failed" /\ tool \in {"link", "copy"}
  /\ cur # NoFile /\ LinkWithoutBackup(cur)
  /\ fs[cur] = runStartFs[cur]

====
